---- MODULE Spec2Model ----
(***************************************************************************)
(* Douile/not-sus-renamer: the Matroska metadata injection engine          *)
(* (Video::insert_into_matroska, src/src/types/video.rs) as a state        *)
(* machine over EBML tag events, and the streaming metadata extractor      *)
(* (Metadata::from_matroska, src/src/types/metadata.rs).                   *)
(*                                                                         *)
(* An event is a record [id, mode, val, kids]:                             *)
(*   mode "Start" / "End" / "Full"  a master element (webm_iterable's      *)
(*                                  Master::Start, Master::End,            *)
(*                                  Master::Full(children))                *)
(*   mode "Leaf"                    a scalar element with payload val      *)
(***************************************************************************)
EXTENDS Integers, Sequences, FiniteSets, TLC

VARIABLES
    video,          \* &self: the Video whose title and tags are injected
    order,          \* the order in which tags.iter() yields the non-empty entries
    run,            \* 1: injecting into the source, 2: injecting into run 1's output
    src,            \* the events the reader has yielded so far in this run
    stack,          \* ids of the source's master elements that are still open
    feed,           \* run 2: the events the reader has still to yield
    out,            \* the events written to the sink so far
    origin,         \* per written event: index in src of the source event, 0 if built by the engine
    first,          \* run 2: the source and the sink of run 1
    info_written,
    tags_written,
    in_info,
    in_tags,
    in_tag,
    failed,         \* "none", or what the environment made fail: "decode", "write"
    pc,             \* "idle", "loop", "done" (Ok(())), "error" (Err returned), "panic"
    \* Metadata::from_matroska
    stream,         \* what the iterator yields, in order: tags and decode errors
    xpos,           \* how many items of the stream the loop has taken
    data,           \* the MatroskaData being filled
    result,         \* the Metadata returned, NoMetadata while there is none
    xpc,            \* "idle", "loop", "ok" (Ok(metadata)), "err" (Err returned), "panic"
    \* Metadata::get_resolution
    meta,           \* the Metadata it is called on
    best_resolution,
    tier,           \* the loop variable i
    quality_class,  \* the value returned
    cpc,            \* "idle", "call", "loop", "returned"
    \* Video::from_path
    file_name,      \* the characters of the file name
    file_type,      \* "MKV" or "Other"
    file_name_parts,
    file_extension,
    part_index,     \* the loop variable i, counted from 0
    title_end,
    episode_title_end,
    season,
    episode,
    quality,
    parsed,         \* the VideoData built, NoVideoData while there is none
    fpc,            \* "idle", "call", "scan", "ok" (Ok(video)), "err" (Err returned), "panic"
    \* Video::update_from_imdb
    self,           \* the Video the calls are made on
    built,          \* the Video as it was constructed
    entity,         \* the lookup result of the last call
    outcome,        \* "idle", "new" (no call yet), "ok" (Ok(())), "panic", or the message of the Err
    calls,          \* how many calls were made
    \* the loop over the videos in main
    fs,             \* the files: what each path holds, Absent if there is no file
    fs0,            \* the files before the video was taken up
    opts,           \* dry_run, same_drive, delete_old, the file_type of the video, and
                    \* whether the build has the feature "imdb"
    is_copied,
    is_metadata_written,
    lpc             \* "idle", "start", "named", "checked", "moved", "done",
                    \* "error" (Err returned), "panic"

injectVars == <<video, order, run, src, stack, feed, out, origin, first,
                info_written, tags_written, in_info, in_tags, in_tag, failed, pc>>

extractVars == <<stream, xpos, data, result, xpc>>

classifyVars == <<meta, best_resolution, tier, quality_class, cpc>>

parseVars == <<file_name, file_type, file_name_parts, file_extension, part_index, title_end,
               episode_title_end, season, episode, quality, parsed, fpc>>

(* what insert_into_matroska, from_matroska, get_resolution, from_path do  *)
(* not touch                                                               *)
updateVars == <<self, built, entity, outcome, calls>>

loopVars == <<fs, fs0, opts, is_copied, is_metadata_written, lpc>>

beyondInject == <<extractVars, classifyVars, parseVars, updateVars, loopVars>>
beyondExtract == <<injectVars, classifyVars, parseVars, updateVars, loopVars>>
beyondClassify == <<injectVars, extractVars, parseVars, updateVars, loopVars>>
beyondParse == <<injectVars, extractVars, classifyVars, updateVars, loopVars>>
beyondUpdate == <<injectVars, extractVars, classifyVars, parseVars, loopVars>>
beyondLoop == <<injectVars, extractVars, classifyVars, parseVars, updateVars>>

vars == <<injectVars, extractVars, classifyVars, parseVars, updateVars, loopVars>>

flags == <<info_written, tags_written, in_info, in_tags, in_tag>>

(***************************************************************************)
(* Bounds of the model.                                                    *)
(***************************************************************************)
MaxLen == 5         \* events of a source
MaxKeysTwice == 3   \* SpecTwice: non-empty dictionary entries of the video

(***************************************************************************)
(* EBML events.                                                            *)
(***************************************************************************)
Leaf(id, val) == [id |-> id, mode |-> "Leaf", val |-> val, kids |-> <<>>]
Start(id) == [id |-> id, mode |-> "Start", val |-> "", kids |-> <<>>]
End(id) == [id |-> id, mode |-> "End", val |-> "", kids |-> <<>>]
Full(id, kids) == [id |-> id, mode |-> "Full", val |-> "", kids |-> kids]

(***************************************************************************)
(* The reserved tag names.                                                 *)
(***************************************************************************)
TITLE == "TITLE"
DATE_RELEASED == "DATE_RELEASED"
COMMENT == "COMMENT"
IMDB_ID == "IMDB"
EPISODE_NUMBER == "EPISODE"
SEASON_NUMBER == "SEASON"

ReservedKeys == {TITLE, DATE_RELEASED, COMMENT, IMDB_ID, EPISODE_NUMBER, SEASON_NUMBER}

(***************************************************************************)
(* Option<String>, Entity, Episode, VideoData.                             *)
(***************************************************************************)
None == [some |-> FALSE, v |-> ""]
Some(s) == [some |-> TRUE, v |-> s]

Entity(t, y, i) == [title |-> t, release_year |-> y, imdb_id |-> i]
Episode(e, s, t, i, series) ==
    [episode |-> e, season |-> s, title |-> t, imdb_id |-> i, series |-> series]
Movie(ent) == [kind |-> "Movie", ent |-> ent]
EpisodeOf(ep) == [kind |-> "Episode", ep |-> ep]

(***************************************************************************)
(* u32::to_string: the decimal digits of n, most significant first.        *)
(***************************************************************************)
Digit(d) ==
    CASE d = 0 -> "0" [] d = 1 -> "1" [] d = 2 -> "2" [] d = 3 -> "3" [] d = 4 -> "4"
      [] d = 5 -> "5" [] d = 6 -> "6" [] d = 7 -> "7" [] d = 8 -> "8" [] d = 9 -> "9"

RECURSIVE to_string(_)
to_string(n) == IF n < 10 THEN Digit(n) ELSE to_string(n \div 10) \o Digit(n % 10)

(***************************************************************************)
(* The tag dictionary built at the head of insert_into_matroska: the       *)
(* HashMap tags, as a function from the inserted keys to their values.     *)
(***************************************************************************)
ImdbKey(imdb_id) == IF imdb_id.some THEN {IMDB_ID} ELSE {}

tags(v) ==
    IF v.kind = "Movie"
    THEN [k \in {COMMENT, TITLE, DATE_RELEASED} \cup ImdbKey(v.ent.imdb_id) |->
            CASE k = COMMENT -> ""
              [] k = TITLE -> v.ent.title
              [] k = DATE_RELEASED -> to_string(v.ent.release_year)
              [] k = IMDB_ID -> v.ent.imdb_id.v]
    ELSE [k \in {COMMENT, TITLE, DATE_RELEASED, SEASON_NUMBER, EPISODE_NUMBER}
                    \cup ImdbKey(v.ep.imdb_id) |->
            CASE k = COMMENT -> ""
              [] k = TITLE -> v.ep.series.title
              [] k = DATE_RELEASED -> to_string(v.ep.series.release_year)
              [] k = SEASON_NUMBER -> to_string(v.ep.season)
              [] k = EPISODE_NUMBER -> to_string(v.ep.episode)
              [] k = IMDB_ID -> v.ep.imdb_id.v]

(* let title = MatroskaSpec::Title(..): the Movie's title, the Episode's own title *)
title(v) == Leaf("Title", IF v.kind = "Movie" THEN v.ent.title ELSE v.ep.title)

(* the keys the loops over tags.iter() write: those with v.len() > 0 *)
NonEmptyKeys(v) == {k \in DOMAIN tags(v) : Len(tags(v)[k]) > 0}

(* every order a HashMap may yield these entries in *)
Orders(v) ==
    {o \in [1..Cardinality(NonEmptyKeys(v)) -> NonEmptyKeys(v)] :
        \A i, j \in DOMAIN o : i # j => o[i] # o[j]}

(***************************************************************************)
(* The inputs the model draws from.                                        *)
(***************************************************************************)
Videos ==
    { Movie(Entity("", 0, None)),
      Movie(Entity("M", 1999, Some("tt123"))),
      EpisodeOf(Episode(3, 1, "", None, Entity("", 0, None))),
      EpisodeOf(Episode(5, 1, "E", None, Entity("S", 0, None))),
      EpisodeOf(Episode(12, 2, "", Some("tt456"), Entity("", 2008, Some("tt400")))) }

SimpleTagOf(name, value) ==
    Full("SimpleTag", <<Leaf("TagName", name), Leaf("TagString", value)>>)

(* a SimpleTag that carries a binary value and no TagString *)
SimpleTagBinary(name) ==
    Full("SimpleTag", <<Leaf("TagName", name), Leaf("TagBinary", "bytes")>>)

SourceTagNames == ReservedKeys \cup {"ARTIST"}

(* the children the Matroska schema allows under the open element `top`
   ("" at top level) that the model offers *)
ChildrenOf(top) ==
    CASE top = "" -> {Start("Info"), Start("Tracks"), Start("Cluster"), Start("Tags")}
      [] top = "Info" -> {Leaf("Title", "Old"), Leaf("Duration", "60")}
      [] top = "Tags" -> {Start("Tag"), SimpleTagOf("ARTIST", "x")}
      [] top = "Tag" -> {SimpleTagOf(n, "x") : n \in SourceTagNames}
                            \cup {SimpleTagBinary("COVER")}
      [] OTHER -> {}

Top == IF stack = <<>> THEN "" ELSE stack[Len(stack)]

(* run 1: any next event that leaves room to close the open elements;
   run 2: the next event of the re-read sink *)
Offered ==
    IF run = 1
    THEN {e \in ChildrenOf(Top) :
            Len(src) + Len(stack) + (IF e.mode = "Start" THEN 2 ELSE 1) <= MaxLen}
         \cup (IF stack = <<>> THEN {} ELSE {End(Top)})
    ELSE IF feed = <<>> THEN {} ELSE {Head(feed)}

(* the reader is exhausted: a source may end at any event, with elements   *)
(* still open (a file cut short), and the iterator then yields None        *)
EndOfStream == IF run = 1 THEN TRUE ELSE feed = <<>>

(***************************************************************************)
(* What WebmIterator::new(from, &[SimpleTag(Master::Start)]) yields for    *)
(* the bytes WebmWriter wrote for the events s: a SimpleTag is buffered    *)
(* and yielded as one Full event, every other master as Start .. End.      *)
(***************************************************************************)
FirstEnd(s, id) ==
    LET hits == {i \in 1..Len(s) : s[i].id = id /\ s[i].mode = "End"}
    IN  IF hits = {} THEN 0 ELSE CHOOSE i \in hits : \A j \in hits : i <= j

RECURSIVE Reread(_)
Reread(s) ==
    IF s = <<>> THEN <<>>
    ELSE LET e == Head(s) IN
         IF e.id = "SimpleTag" /\ e.mode = "Start"
         THEN LET n == FirstEnd(s, "SimpleTag") IN
              IF n = 0 THEN <<>>
              ELSE <<Full("SimpleTag", SubSeq(s, 2, n - 1))>> \o Reread(SubSeq(s, n + 1, Len(s)))
         ELSE IF e.mode = "Full" /\ e.id # "SimpleTag"
         THEN <<Start(e.id)>> \o Reread(e.kids) \o <<End(e.id)>> \o Reread(Tail(s))
         ELSE <<e>> \o Reread(Tail(s))

(***************************************************************************)
(* The engine's own events.                                                *)
(***************************************************************************)
SimpleTagEvents(k, v) ==
    <<Start("SimpleTag"), Leaf("TagName", k), Leaf("TagString", v), End("SimpleTag")>>

RECURSIVE Entries(_, _)
Entries(v, o) ==
    IF o = <<>> THEN <<>>
    ELSE SimpleTagEvents(Head(o), tags(v)[Head(o)]) \o Entries(v, Tail(o))

(* faulty variant: the block's Tag is never closed *)
TagBlock_Unclosed(v, o) ==
    <<Start("Tag"), Full("Targets", <<>>)>> \o Entries(v, o)

(* Tag Start, Targets with no children, one SimpleTag per non-empty entry, Tag End *)
TagBlock(v, o) ==
    <<Start("Tag"), Full("Targets", <<>>)>> \o Entries(v, o) \o <<End("Tag")>>

SynthInfo(v) == Full("Info", <<title(v)>>)

Triggers == {"Tracks", "Chapters", "Cluster", "Cues", "Attachments", "Tags"}

IsTrigger(e) == e.mode = "Start" /\ e.id \in Triggers

Zeros(n) == [i \in 1..n |-> 0]

(* faulty variant: the Info is built only in front of Tags *)
Synth_TagsOnly(e) ==
    IF e = Start("Tags") /\ ~info_written THEN <<SynthInfo(video)>> ELSE <<>>

(* the match on the six section starts, guarded by !info_written *)
Synth(e) == IF IsTrigger(e) /\ ~info_written THEN <<SynthInfo(video)>> ELSE <<>>

FindKid(kids, id) ==
    LET hits == {i \in 1..Len(kids) : kids[i].id = id}
    IN  IF hits = {} THEN 0 ELSE CHOOSE i \in hits : \A j \in hits : i <= j

(* the `if let (Some(TagName(name)), Some(TagString(_)))` and the
   `!tags.contains_key(name)` test: is the buffered SimpleTag written? *)
KeepSimpleTag(e) ==
    LET n == FindKid(e.kids, "TagName")
        s == FindKid(e.kids, "TagString")
    IN  n # 0 /\ s # 0 /\ e.kids[n].val \notin DOMAIN tags(video)

(***************************************************************************)
(* The body of `for tag in reader`, one operator per branch. Each gives    *)
(* the events the branch writes (ws), where each comes from (os) and the   *)
(* flags after it; k is the index of the event read.                       *)
(***************************************************************************)
Effect(ws, os, iw, tw, ii, its, itg) ==
    [ws |-> ws, os |-> os, info_written |-> iw, tags_written |-> tw,
     in_info |-> ii, in_tags |-> its, in_tag |-> itg]

OnInfo(e, k) ==
    Effect(IF e.mode = "End" THEN <<title(video), e>> ELSE <<e>>,
           IF e.mode = "End" THEN <<0, k>> ELSE <<k>>,
           IF e.mode = "End" THEN TRUE ELSE info_written,
           tags_written,
           CASE e.mode = "Start" -> TRUE [] e.mode = "End" -> FALSE [] OTHER -> in_info,
           in_tags, in_tag)

(* faulty variant: the Tag block is written when the Tags section opens *)
OnTags_BlockFirst(e, k) ==
    LET pre == Synth(e)
        blk == IF e.mode = "Start" THEN TagBlock(video, order) ELSE <<>>
    IN  Effect(pre \o <<e>> \o blk,
               Zeros(Len(pre)) \o <<k>> \o Zeros(Len(blk)),
               info_written \/ pre # <<>>,
               IF e.mode = "End" THEN TRUE ELSE tags_written,
               in_info,
               CASE e.mode = "Start" -> TRUE [] e.mode = "End" -> FALSE [] OTHER -> in_tags,
               in_tag)

OnTags(e, k) ==
    LET pre == Synth(e)
        blk == IF e.mode = "End" THEN TagBlock(video, order) ELSE <<>>
    IN  Effect(pre \o blk \o <<e>>,
               Zeros(Len(pre) + Len(blk)) \o <<k>>,
               info_written \/ pre # <<>>,
               IF e.mode = "End" THEN TRUE ELSE tags_written,
               in_info,
               CASE e.mode = "Start" -> TRUE [] e.mode = "End" -> FALSE [] OTHER -> in_tags,
               in_tag)

(* faulty variant: a Title inside Info is written like any other child *)
OnInInfo_KeepsTitle(e, k) ==
    LET pre == Synth(e)
    IN  Effect(pre \o <<e>>, Zeros(Len(pre)) \o <<k>>,
               info_written \/ pre # <<>>, tags_written, in_info, in_tags, in_tag)

OnInInfo(e, k) ==
    LET pre == Synth(e)
        ws == IF e.id = "Title" THEN <<>> ELSE <<e>>
    IN  Effect(pre \o ws,
               Zeros(Len(pre)) \o (IF ws = <<>> THEN <<>> ELSE <<k>>),
               info_written \/ pre # <<>>, tags_written, in_info, in_tags, in_tag)

OnInTags(e, k) ==
    LET pre == Synth(e)
        ws == IF e.id = "SimpleTag" /\ ~KeepSimpleTag(e) THEN <<>> ELSE <<e>>
    IN  Effect(pre \o ws,
               Zeros(Len(pre)) \o (IF ws = <<>> THEN <<>> ELSE <<k>>),
               info_written \/ pre # <<>>, tags_written, in_info, in_tags,
               CASE e.id = "Tag" /\ e.mode = "Start" -> TRUE
                 [] e.id = "Tag" /\ e.mode = "End" -> FALSE
                 [] OTHER -> in_tag)

OnPass(e, k) ==
    LET pre == Synth(e)
    IN  Effect(pre \o <<e>>, Zeros(Len(pre)) \o <<k>>,
               info_written \/ pre # <<>>, tags_written, in_info, in_tags, in_tag)

(* faulty variant: an Err is dropped and the loop goes on *)
Propagate_Swallowed == "loop"

(* the `?` on a Result: an Err makes insert_into_matroska return it at once *)
Propagate == "error"

(***************************************************************************)
(* Actions.                                                                *)
(***************************************************************************)
Read(e) ==
    /\ src' = Append(src, e)
    /\ stack' = CASE e.mode = "Start" -> Append(stack, e.id)
                  [] e.mode = "End" /\ stack # <<>> -> SubSeq(stack, 1, Len(stack) - 1)
                  [] OTHER -> stack
    /\ feed' = IF run = 1 THEN feed ELSE Tail(feed)
    /\ UNCHANGED <<video, order, run, first>>
    /\ UNCHANGED beyondInject

(* every write of the branch succeeds, or the j+1-th one fails *)
Commit(eff) ==
    \/ /\ out' = out \o eff.ws
       /\ origin' = origin \o eff.os
       /\ info_written' = eff.info_written
       /\ tags_written' = eff.tags_written
       /\ in_info' = eff.in_info
       /\ in_tags' = eff.in_tags
       /\ in_tag' = eff.in_tag
       /\ UNCHANGED <<failed, pc>>
    \/ \E j \in 0..(Len(eff.ws) - 1) :
          /\ out' = out \o SubSeq(eff.ws, 1, j)
          /\ origin' = origin \o SubSeq(eff.os, 1, j)
          /\ failed' = "write"
          /\ pc' = Propagate
          /\ UNCHANGED flags

ReadInfo ==
    /\ pc = "loop"
    /\ \E e \in Offered :
          /\ e.id = "Info"
          /\ Read(e)
          /\ Commit(OnInfo(e, Len(src) + 1))

ReadTags ==
    /\ pc = "loop"
    /\ \E e \in Offered :
          /\ e.id = "Tags"
          /\ Read(e)
          /\ Commit(OnTags(e, Len(src) + 1))

ReadInInfo ==
    /\ pc = "loop"
    /\ in_info
    /\ \E e \in Offered :
          /\ e.id \notin {"Info", "Tags"}
          /\ Read(e)
          /\ Commit(OnInInfo(e, Len(src) + 1))

ReadInTags ==
    /\ pc = "loop"
    /\ ~in_info /\ in_tags
    /\ \E e \in Offered :
          /\ e.id \notin {"Info", "Tags"}
          /\ ~(e.id = "SimpleTag" /\ ~(e.mode = "Full" /\ in_tag))
          /\ Read(e)
          /\ Commit(OnInTags(e, Len(src) + 1))

(* MatroskaSpec::SimpleTag(_) => unreachable!() *)
ReadUnreachable ==
    /\ pc = "loop"
    /\ ~in_info /\ in_tags
    /\ \E e \in Offered :
          /\ e.id = "SimpleTag" /\ ~(e.mode = "Full" /\ in_tag)
          /\ Read(e)
          /\ pc' = "panic"
          /\ UNCHANGED <<out, origin, flags, failed>>

ReadOther ==
    /\ pc = "loop"
    /\ ~in_info /\ ~in_tags
    /\ \E e \in Offered :
          /\ e.id \notin {"Info", "Tags"}
          /\ Read(e)
          /\ Commit(OnPass(e, Len(src) + 1))

(* `let tag = tag?;` on an Err from the reader *)
DecodeError ==
    /\ pc = "loop"
    /\ IF run = 1 THEN Len(src) < MaxLen ELSE feed # <<>>
    /\ failed' = "decode"
    /\ pc' = Propagate
    /\ UNCHANGED <<video, order, run, src, stack, feed, out, origin, first, flags>>
    /\ UNCHANGED beyondInject

(* faulty variant: the end-of-stream Tags section is written whatever tags_written says *)
Finish_Unguarded ==
    /\ pc = "loop"
    /\ EndOfStream
    /\ LET ws == <<Start("Tags")>> \o TagBlock(video, order) \o <<End("Tags")>>
       IN  /\ out' = out \o ws
           /\ origin' = origin \o Zeros(Len(ws))
           /\ pc' = "done"
           /\ UNCHANGED failed
    /\ UNCHANGED <<video, order, run, src, stack, feed, first, flags>>
    /\ UNCHANGED beyondInject

(* the reader is exhausted: `if !tags_written { .. }` then Ok(()) *)
Finish ==
    /\ pc = "loop"
    /\ EndOfStream
    /\ LET ws == IF tags_written THEN <<>>
                 ELSE <<Start("Tags")>> \o TagBlock(video, order) \o <<End("Tags")>>
       IN  \/ /\ out' = out \o ws
              /\ origin' = origin \o Zeros(Len(ws))
              /\ pc' = "done"
              /\ UNCHANGED failed
           \/ \E j \in 0..(Len(ws) - 1) :
                 /\ out' = out \o SubSeq(ws, 1, j)
                 /\ origin' = origin \o Zeros(j)
                 /\ failed' = "write"
                 /\ pc' = Propagate
    /\ UNCHANGED <<video, order, run, src, stack, feed, first, flags>>
    /\ UNCHANGED beyondInject

(* the sink of a successful run is injected into again, with the same video *)
Reinject ==
    /\ pc = "done"
    /\ run = 1
    /\ run' = 2
    /\ first' = [src |-> src, out |-> out]
    /\ feed' = Reread(out)
    /\ order' \in Orders(video)
    /\ src' = <<>> /\ stack' = <<>> /\ out' = <<>> /\ origin' = <<>>
    /\ info_written' = FALSE /\ tags_written' = FALSE
    /\ in_info' = FALSE /\ in_tags' = FALSE /\ in_tag' = FALSE
    /\ pc' = "loop"
    /\ UNCHANGED <<video, failed>>
    /\ UNCHANGED beyondInject

(***************************************************************************)
(* Metadata::from_matroska: one pass over the tags of a Matroska file that *)
(* collects the duration and the picture size.                             *)
(***************************************************************************)
MaxStream == 5

(* Option<f64>, Option<u64>, Option<Duration> with nothing in them *)
NoNumber == [some |-> FALSE, v |-> 0]
NoLength == [some |-> FALSE, v |-> [secs |-> 0, nanos |-> 0]]

(* an f64: a finite number of n Ticks-ths (a binary fraction, so that the  *)
(* f64 holds it exactly), or one of the values the model's integers do not *)
(* reach: a finite number of 2^64 or more ("huge"), its negative, the two  *)
(* infinities and NaN; class is one of "finite", "huge", "-huge", "inf",   *)
(* "-inf" and "NaN"                                                        *)
Ticks == 512
F64(class, n) == [class |-> class, n |-> n]

(* one item of the iterator: Ok(MatroskaSpec::<id>(n)), or Err(_).  The    *)
(* value of a Duration is an f64 of seconds, F64(class, n); the other tags *)
(* carry the unsigned integer n.                                           *)
Tag(id, n) == [ok |-> TRUE, id |-> id, n |-> n, class |-> "finite"]
TagF64(id, x) == [ok |-> TRUE, id |-> id, n |-> x.n, class |-> x.class]
Corrupt == [ok |-> FALSE, id |-> "", n |-> 0, class |-> "finite"]

(* the items a stream is made of: the five tags from_matroska matches,     *)
(* with the positive values the Matroska schema requires of them (a        *)
(* Duration of 60.5 s), a Duration of -0.5 s and one that is NaN (the      *)
(* element is a float and a file can hold any), a tag it does not match,   *)
(* and a decode error                                                      *)
StreamItems ==
    {TagF64("Duration", F64("finite", 30976)), TagF64("Duration", F64("finite", -256)),
     TagF64("Duration", F64("NaN", 0)),
     Tag("PixelWidth", 1440), Tag("PixelHeight", 1080),
     Tag("DisplayWidth", 1920), Tag("DisplayHeight", 1088),
     Tag("TrackNumber", 1), Corrupt}

(* the tags is_complete() waits for *)
Three == {"Duration", "PixelWidth", "PixelHeight"}

Streams == UNION {[1..n -> StreamItems] : n \in 0..MaxStream}

(* MatroskaData::default() *)
MatroskaData ==
    [duration |-> [some |-> FALSE, v |-> F64("finite", 0)],
     pixel_width |-> NoNumber, pixel_height |-> NoNumber,
     display_width |-> NoNumber, display_height |-> NoNumber]

(* faulty variant: the pixel height is not asked for *)
is_complete_WithoutHeight(d) == d.duration.some /\ d.pixel_width.some

is_complete(d) == d.duration.some /\ d.pixel_height.some /\ d.pixel_width.some

(* Duration::from_secs_f64 of the f64 x: the call panics on a number below *)
(* zero ("cannot convert float seconds to Duration: value is negative")    *)
(* and on one that is NaN or does not fit the u64 of seconds ("value is    *)
(* either too big or NaN"), and gives the Duration d otherwise; a fraction *)
(* of n Ticks-ths is a whole number of nanoseconds, so nothing is rounded  *)
from_secs_f64(x) ==
    IF x.class \in {"-huge", "-inf"} \/ (x.class = "finite" /\ x.n < 0)
    THEN [panic |-> TRUE, d |-> NoLength.v]
    ELSE IF x.class \in {"huge", "inf", "NaN"}
    THEN [panic |-> TRUE, d |-> NoLength.v]
    ELSE [panic |-> FALSE,
          d |-> [secs |-> x.n \div Ticks,
                 nanos |-> (x.n % Ticks) * (1000000000 \div Ticks)]]

Metadata(res, len) == [resolution |-> res, length |-> len]

(* what from_matroska has returned: nothing yet or an Err, or Ok(md) *)
NoMetadata == [some |-> FALSE, md |-> Metadata(<<0, 0>>, NoLength)]
Returned(md) == [some |-> TRUE, md |-> md]

(* MatroskaData::build: None when incomplete, else Some(Metadata) with the *)
(* display pair if both halves are there and the pixel pair otherwise; an  *)
(* unwrap() of an empty field panics, and so does from_secs_f64 of a       *)
(* duration that is below zero, too big or NaN                             *)
build(d) ==
    IF ~is_complete(d) THEN [kind |-> "None", md |-> NoMetadata.md]
    ELSE IF d.display_width.some /\ d.display_height.some
         THEN IF d.duration.some /\ ~from_secs_f64(d.duration.v).panic
              THEN [kind |-> "Some",
                    md |-> Metadata(<<d.display_width.v, d.display_height.v>>,
                                    Some(from_secs_f64(d.duration.v).d))]
              ELSE [kind |-> "panic", md |-> NoMetadata.md]
    ELSE IF d.pixel_width.some /\ d.pixel_height.some /\ d.duration.some
            /\ ~from_secs_f64(d.duration.v).panic
         THEN [kind |-> "Some",
               md |-> Metadata(<<d.pixel_width.v, d.pixel_height.v>>,
                               Some(from_secs_f64(d.duration.v).d))]
         ELSE [kind |-> "panic", md |-> NoMetadata.md]

(* the match on the tag: a DisplayHeight is assigned to data.display_width *)
Assign(d, t) ==
    CASE t.id = "Duration" -> [d EXCEPT !.duration = Some(F64(t.class, t.n))]
      [] t.id = "PixelWidth" -> [d EXCEPT !.pixel_width = Some(t.n)]
      [] t.id = "PixelHeight" -> [d EXCEPT !.pixel_height = Some(t.n)]
      [] t.id = "DisplayWidth" -> [d EXCEPT !.display_width = Some(t.n)]
      [] t.id = "DisplayHeight" -> [d EXCEPT !.display_width = Some(t.n)]
      [] OTHER -> d

(* the iterator yields Ok(tag): match it, then return once data is complete *)
ExtractTag ==
    /\ xpc = "loop"
    /\ xpos < Len(stream)
    /\ stream[xpos + 1].ok
    /\ xpos' = xpos + 1
    /\ data' = Assign(data, stream[xpos + 1])
    /\ IF is_complete(data')
       THEN LET b == build(data')
            IN  IF b.kind = "Some"
                THEN result' = Returned(b.md) /\ xpc' = "ok"
                ELSE xpc' = "panic" /\ UNCHANGED result
       ELSE UNCHANGED <<result, xpc>>
    /\ UNCHANGED stream
    /\ UNCHANGED beyondExtract

(* the iterator yields Err(_): `if let Ok(tag) = tag` does not match and   *)
(* the for loop goes on to the next item                                   *)
ExtractSkip ==
    /\ xpc = "loop"
    /\ xpos < Len(stream)
    /\ ~stream[xpos + 1].ok
    /\ xpos' = xpos + 1
    /\ UNCHANGED <<stream, data, result, xpc>>
    /\ UNCHANGED beyondExtract

(* the iterator is exhausted: Err("Unable to extract metadata") *)
ExtractEnd ==
    /\ xpc = "loop"
    /\ xpos = Len(stream)
    /\ xpc' = "err"
    /\ UNCHANGED <<stream, xpos, data, result>>
    /\ UNCHANGED beyondExtract

(* the whole pass as a function of the stream s, from item k on with data  *)
(* d: how the call ends and what it returns                                *)
RECURSIVE Pass(_, _, _)
Pass(s, k, d) ==
    IF k > Len(s) THEN [xpc |-> "err", result |-> NoMetadata]
    ELSE IF ~s[k].ok THEN Pass(s, k + 1, d)
    ELSE LET d2 == Assign(d, s[k])
         IN  IF is_complete(d2)
             THEN IF build(d2).kind = "Some"
                  THEN [xpc |-> "ok", result |-> Returned(build(d2).md)]
                  ELSE [xpc |-> "panic", result |-> NoMetadata]
             ELSE Pass(s, k + 1, d2)

from_matroska(s) == Pass(s, 1, MatroskaData)

(***************************************************************************)
(* Metadata::from_vertical_resolution and Metadata::get_resolution.        *)
(***************************************************************************)
MaxHeight == 4400

(* the decimal digits of u32::MAX and of u64::MAX *)
U32_MAX == <<"4", "2", "9", "4", "9", "6", "7", "2", "9", "5">>
U64_MAX == <<"1", "8", "4", "4", "6", "7", "4", "4", "0", "7",
             "3", "7", "0", "9", "5", "5", "1", "6", "1", "5">>

DigitValue(c) == CHOOSE d \in 0..9 : Digit(d) = c

RECURSIVE StripZeros(_)
StripZeros(ds) ==
    IF Len(ds) > 1 /\ ds[1] = "0" THEN StripZeros(Tail(ds)) ELSE ds

(* a <= b for two digit strings of one length *)
RECURSIVE DigitsLeq(_, _)
DigitsLeq(a, b) ==
    IF a = <<>> THEN TRUE
    ELSE IF DigitValue(a[1]) # DigitValue(b[1]) THEN DigitValue(a[1]) < DigitValue(b[1])
    ELSE DigitsLeq(Tail(a), Tail(b))

RECURSIVE Value(_)
Value(ds) ==
    IF ds = <<>> THEN 0
    ELSE Value(SubSeq(ds, 1, Len(ds) - 1)) * 10 + DigitValue(ds[Len(ds)])

(* the decimal digits of the number n *)
RECURSIVE Decimal(_)
Decimal(n) == IF n < 10 THEN <<Digit(n)>> ELSE Append(Decimal(n \div 10), Digit(n % 10))

(* n is above u64::MAX, read off its digits *)
AboveU64(n) ==
    LET z == Decimal(n)
    IN  Len(z) > Len(U64_MAX) \/ (Len(z) = Len(U64_MAX) /\ ~DigitsLeq(z, U64_MAX))

(* a * b in u64 as a build without overflow checks computes it: the        *)
(* product modulo 2^64                                                     *)
wrapping_mul(a, b) ==
    IF AboveU64(a * b) THEN (a * b) % (Value(U64_MAX) + 1) ELSE a * b

STANDARD_RESOLUTIONS == <<480, 720, 1080, 1440, 2160, 4320>>

(* `vertical_resolution / 9 * 16` in u64: in a build with overflow checks   *)
(* the multiplication panics when the product is above u64::MAX, in a      *)
(* build without them it wraps                                             *)
from_vertical_resolution_overflows(vertical_resolution) ==
    AboveU64((vertical_resolution \div 9) * 16)

from_vertical_resolution(vertical_resolution, length) ==
    Metadata(<<wrapping_mul(vertical_resolution \div 9, 16), vertical_resolution>>, length)

u64_max(a, b) == IF a >= b THEN a ELSE b

(* the widths and heights get_resolution is called on: 16:9 widths of     *)
(* tiers, a width that is no multiple of 16, a width whose 16:9 height    *)
(* lies midway between two tiers, one beyond the highest tier, and every  *)
(* height up to MaxHeight; and what from_vertical_resolution builds from  *)
(* every quality number up to MaxHeight                                   *)
PictureWidths == {0, 1280, 1920, 1930, 3200, 8000}

Metadatas ==
    {Metadata(<<w, h>>, NoLength) : w \in PictureWidths, h \in 0..MaxHeight}
    \cup {from_vertical_resolution(q, NoLength) : q \in 0..MaxHeight}

(* faulty variant: at equal distance the higher tier is returned *)
Nearer_TieHigher(lower, higher, best) ==
    IF best - lower >= higher - best THEN higher ELSE lower

(* the inner if of the loop body, with lower <= best <= higher *)
Nearer(lower, higher, best) ==
    IF best - lower > higher - best THEN higher ELSE lower

(* let best_resolution = u64::max(self.resolution.0 / 16 * 9, self.resolution.1) *)
GetResolutionEnter ==
    /\ cpc = "call"
    /\ best_resolution' = u64_max((meta.resolution[1] \div 16) * 9, meta.resolution[2])
    /\ tier' = 1
    /\ cpc' = "loop"
    /\ UNCHANGED <<meta, quality_class>>
    /\ UNCHANGED beyondClassify

(* one turn of `for i in 1..STANDARD_RESOLUTIONS.len()` *)
GetResolutionStep ==
    /\ cpc = "loop"
    /\ tier < Len(STANDARD_RESOLUTIONS)
    /\ LET lower == STANDARD_RESOLUTIONS[tier]
           higher == STANDARD_RESOLUTIONS[tier + 1]
       IN  IF best_resolution >= lower /\ best_resolution <= higher
           THEN /\ quality_class' = Nearer(lower, higher, best_resolution)
                /\ cpc' = "returned"
                /\ UNCHANGED tier
           ELSE /\ tier' = tier + 1
                /\ UNCHANGED <<quality_class, cpc>>
    /\ UNCHANGED <<meta, best_resolution>>
    /\ UNCHANGED beyondClassify

(* the loop is over without a return: best_resolution is the result *)
GetResolutionFallThrough ==
    /\ cpc = "loop"
    /\ tier = Len(STANDARD_RESOLUTIONS)
    /\ quality_class' = best_resolution
    /\ cpc' = "returned"
    /\ UNCHANGED <<meta, best_resolution, tier>>
    /\ UNCHANGED beyondClassify

(***************************************************************************)
(* Video::from_path: the file name is split into parts, the parts are      *)
(* scanned for season, episode and quality markers, and an Episode or a    *)
(* Movie is built.  A part is a sequence of one-character strings.         *)
(***************************************************************************)
MaxParts == 3
MaxPartsAnySeparator == 2

Separators == {".", " ", "-"}

AsciiDigits == {"0", "1", "2", "3", "4", "5", "6", "7", "8", "9"}

(* str::split(&['.', ' ', '-'][..]): the pieces between separators, from   *)
(* character k of s on, with cur the piece under way                       *)
RECURSIVE SplitAt(_, _, _)
SplitAt(s, k, cur) ==
    IF k > Len(s) THEN <<cur>>
    ELSE IF s[k] \in Separators THEN <<cur>> \o SplitAt(s, k + 1, <<>>)
    ELSE SplitAt(s, k + 1, Append(cur, s[k]))

split(s) == SplitAt(s, 1, <<>>)

(* the characters of a part as one string, and [&str]::join(" ") *)
RECURSIVE Str(_)
Str(t) == IF t = <<>> THEN "" ELSE t[1] \o Str(Tail(t))

RECURSIVE join(_)
join(ps) ==
    IF ps = <<>> THEN ""
    ELSE IF Len(ps) = 1 THEN Str(ps[1])
    ELSE Str(ps[1]) \o " " \o join(Tail(ps))

(* two characters beyond ASCII, each written by its code point and taken   *)
(* as one character: ARABIC-INDIC DIGIT THREE, which stands for the        *)
(* decimal digits (class Nd) of the other scripts, and LATIN SMALL LETTER  *)
(* LONG S, which simple case folding maps to s                             *)
ArabicIndicThree == "U+0663"
LongS == "U+017F"

(* \d of the three patterns: the regex crate matches a decimal digit of    *)
(* any script                                                              *)
IsDigit(c) == c \in AsciiDigits \cup {ArabicIndicThree}

(* where the run of digits that starts at character k of t stops *)
RECURSIVE RunEnd(_, _)
RunEnd(t, k) == IF k <= Len(t) /\ IsDigit(t[k]) THEN RunEnd(t, k + 1) ELSE k

NoCapture == [some |-> FALSE, v |-> <<>>]

(* Regex::captures for `<letter>(\d+)`, case-insensitive: group 1 of the   *)
(* leftmost match                                                          *)
LetterDigits(letters, t) ==
    LET at == {i \in 1..(Len(t) - 1) : t[i] \in letters /\ IsDigit(t[i + 1])}
    IN  IF at = {} THEN NoCapture
        ELSE LET i == CHOOSE a \in at : \A b \in at : a <= b
             IN  Some(SubSeq(t, i + 1, RunEnd(t, i + 1) - 1))

(* `s(\d+)`: without regard to case the s matches s, S and the long s *)
SEASON(t) == LetterDigits({"s", "S", LongS}, t)

EPISODE(t) == LetterDigits({"e", "E"}, t)

(* Regex::captures for `(\d{3,})p`, case-insensitive *)
QUALITY(t) ==
    LET at == {i \in 1..Len(t) :
                /\ IsDigit(t[i])
                /\ RunEnd(t, i) - i >= 3
                /\ RunEnd(t, i) <= Len(t)
                /\ t[RunEnd(t, i)] \in {"p", "P"}}
    IN  IF at = {} THEN NoCapture
        ELSE LET i == CHOOSE a \in at : \A b \in at : a <= b
             IN  Some(SubSeq(t, i, RunEnd(t, i) - 1))

(* u32::from_str_radix(ds, 10) with max = U32_MAX, u64::from_str_radix     *)
(* with max = U64_MAX, on a string of decimal digits: Some(n) for Ok(n),   *)
(* NoNumber for the Err of a digit that is not an ASCII digit and for the  *)
(* Err of a number above max                                               *)
from_str_radix(ds, max) ==
    IF \E k \in 1..Len(ds) : ds[k] \notin AsciiDigits THEN NoNumber
    ELSE LET z == StripZeros(ds)
         IN  IF Len(z) < Len(max) \/ (Len(z) = Len(max) /\ DigitsLeq(z, max))
             THEN Some(Value(z))
             ELSE NoNumber

usize_min(a, b) == IF a <= b THEN a ELSE b

(* the parts file names are made of: a plain word, a word that ends in e   *)
(* and a digit, season and episode in one part, a season alone, an episode *)
(* alone, a quality, a quality below 9, an episode number and a quality    *)
(* number too large for u32 and for u64, an e before a digit of another    *)
(* script with an e and an ASCII digit after it, and a long s before a     *)
(* digit                                                                   *)
Parts ==
    {<<"S", "h", "o", "w">>,
     <<"M", "o", "v", "i", "e", "2">>,
     <<"S", "0", "2", "E", "0", "5">>,
     <<"s", "3">>,
     <<"E", "0", "7">>,
     <<"1", "0", "8", "0", "p">>,
     <<"0", "0", "8", "p">>,
     <<"e", "9", "9", "9", "9", "9", "9", "9", "9", "9", "9", "9">>,
     <<"9", "9", "9", "9", "9", "9", "9", "9", "9", "9", "9", "9",
       "9", "9", "9", "9", "9", "9", "9", "9", "9", "9", "9", "P">>,
     <<"e", ArabicIndicThree, "e", "5">>,
     <<LongS, "3">>}

FileTypes == {"MKV", "Other"}

Extension(ft) == IF ft = "MKV" THEN <<"m", "k", "v">> ELSE <<"m", "p", "4">>

(* the parts ps and the extension written as one name with separator sep *)
RECURSIVE NameOfParts(_, _, _)
NameOfParts(ps, sep, ext) ==
    IF ps = <<>> THEN ext ELSE ps[1] \o <<sep>> \o NameOfParts(Tail(ps), sep, ext)

(* the names drawn: up to MaxPartsAnySeparator parts written with each of  *)
(* the separators, and more parts, up to MaxParts, written with the dot    *)
FileNames(ft) ==
    {NameOfParts(ps, sep, Extension(ft)) :
        ps \in UNION {[1..n -> Parts] : n \in 0..MaxPartsAnySeparator}, sep \in Separators}
    \cup {NameOfParts(ps, ".", Extension(ft)) :
            ps \in UNION {[1..n -> Parts] : n \in (MaxPartsAnySeparator + 1)..MaxParts}}

(* Result<Video>: nothing yet or an Err, or the info of the Ok(Video) *)
NoVideoData == [some |-> FALSE, info |-> Movie(Entity("", 0, None)),
                metadata |-> Metadata(<<0, 0>>, NoLength)]
VideoData(info, metadata) == [some |-> TRUE, info |-> info, metadata |-> metadata]

(* Option::unwrap_or *)
unwrap_or(o, d) == IF o.some THEN o.v ELSE d

(* faulty variant: a quality marker leaves the title boundary alone *)
TitleEnd_QualityIgnored(i, te, s, e, q) ==
    LET te1 == IF s.some THEN usize_min(i, te) ELSE te
    IN  IF e.some THEN usize_min(i, te1) ELSE te1

(* faulty variant: the boundary follows the latest marker *)
TitleEnd_Latest(i, te, s, e, q) ==
    IF s.some \/ e.some \/ q.some THEN i ELSE te

(* the title boundary after part i gave season s, episode e and quality q  *)
(* (each NoNumber when the part has no such marker or its number does not  *)
(* parse)                                                                  *)
TitleEnd(i, te, s, e, q) ==
    LET te1 == IF s.some THEN usize_min(i, te) ELSE te
        te2 == IF e.some THEN usize_min(i, te1) ELSE te1
    IN  IF q.some THEN usize_min(i, te2) ELSE te2

(* faulty variant: every Video with a season or an episode is an Episode *)
Info_SeasonIsEpisode(se, ep, t, et) ==
    IF ep.some \/ se.some
    THEN EpisodeOf(Episode(unwrap_or(ep, 1), unwrap_or(se, 1), unwrap_or(et, ""), None,
                           Entity(t, 0, None)))
    ELSE Movie(Entity(t, 0, None))

(* `let info = if let Some(episode) = episode { .. } else { .. }` *)
Info(se, ep, t, et) ==
    IF ep.some
    THEN EpisodeOf(Episode(ep.v, unwrap_or(se, 1), unwrap_or(et, ""), None,
                           Entity(t, 0, None)))
    ELSE Movie(Entity(t, 0, None))

(* the title and the episode title cut out of the parts *)
Title(ps, te) == join(SubSeq(ps, 1, te))

(* faulty variant: the part at the title boundary is taken into the title *)
EpisodeTitle_WithMarker(ps, te, ete) ==
    IF (IF ete >= te THEN ete - te ELSE 0) > 1
    THEN Some(join(SubSeq(ps, te + 1, ete)))
    ELSE None

EpisodeTitle(ps, te, ete) ==
    IF (IF ete >= te THEN ete - te ELSE 0) > 1
    THEN Some(join(SubSeq(ps, te + 2, ete)))
    ELSE None

(* every way a call of from_matroska on a file may end: the ends of the   *)
(* passes over the streams of up to three items, the fewest a pass that    *)
(* succeeds takes                                                          *)
MatroskaOutcomes ==
    {from_matroska(st) : st \in UNION {[1..n -> StreamItems] : n \in 0..Cardinality(Three)}}

(* the head of from_path: split the name, take the extension off *)
FromPathSplit ==
    /\ fpc = "call"
    /\ LET ps == split(file_name)
       IN  /\ file_extension' = ps[Len(ps)]
           /\ file_name_parts' = SubSeq(ps, 1, Len(ps) - 1)
           /\ title_end' = Len(ps) - 1
           /\ episode_title_end' = Len(ps) - 1
    /\ season' = NoNumber /\ episode' = NoNumber /\ quality' = NoNumber
    /\ part_index' = 0
    /\ fpc' = "scan"
    /\ UNCHANGED <<file_name, file_type, parsed>>
    /\ UNCHANGED beyondParse

(* one turn of `for i in 0..file_name_parts.len()` *)
FromPathScan ==
    /\ fpc = "scan"
    /\ part_index < Len(file_name_parts)
    /\ LET p == file_name_parts[part_index + 1]
           s == IF SEASON(p).some THEN from_str_radix(SEASON(p).v, U32_MAX) ELSE NoNumber
           e == IF EPISODE(p).some THEN from_str_radix(EPISODE(p).v, U32_MAX) ELSE NoNumber
           q == IF QUALITY(p).some THEN from_str_radix(QUALITY(p).v, U64_MAX) ELSE NoNumber
       IN  /\ season' = IF s.some THEN s ELSE season
           /\ episode' = IF e.some THEN e ELSE episode
           /\ quality' = IF q.some THEN q ELSE quality
           /\ title_end' = TitleEnd(part_index, title_end, s, e, q)
           /\ episode_title_end' =
                IF q.some THEN usize_min(part_index, episode_title_end)
                ELSE episode_title_end
    /\ part_index' = part_index + 1
    /\ UNCHANGED <<file_name, file_type, file_name_parts, file_extension, parsed, fpc>>
    /\ UNCHANGED beyondParse

(* the loop is over and the file is not Matroska: the Metadata comes from  *)
(* the quality number                                                      *)
FromPathBuild ==
    /\ fpc = "scan"
    /\ part_index = Len(file_name_parts)
    /\ file_type # "MKV"
    /\ \E overflow_checks \in BOOLEAN :
        IF overflow_checks /\ from_vertical_resolution_overflows(unwrap_or(quality, 0))
        THEN /\ fpc' = "panic"
             /\ UNCHANGED parsed
        ELSE /\ parsed' = VideoData(
                    Info(season, episode, Title(file_name_parts, title_end),
                         EpisodeTitle(file_name_parts, title_end, episode_title_end)),
                    from_vertical_resolution(unwrap_or(quality, 0), NoLength))
             /\ fpc' = "ok"
    /\ UNCHANGED <<file_name, file_type, file_name_parts, file_extension, part_index,
                   title_end, episode_title_end, season, episode, quality>>
    /\ UNCHANGED beyondParse

(* the loop is over and the file is Matroska: Metadata::from_matroska(..)? *)
FromPathBuildMatroska ==
    /\ fpc = "scan"
    /\ part_index = Len(file_name_parts)
    /\ file_type = "MKV"
    /\ \E o \in MatroskaOutcomes :
        IF o.xpc = "ok"
        THEN /\ parsed' = VideoData(
                    Info(season, episode, Title(file_name_parts, title_end),
                         EpisodeTitle(file_name_parts, title_end, episode_title_end)),
                    o.result.md)
             /\ fpc' = "ok"
        ELSE /\ fpc' = o.xpc
             /\ UNCHANGED parsed
    /\ UNCHANGED <<file_name, file_type, file_name_parts, file_extension, part_index,
                   title_end, episode_title_end, season, episode, quality>>
    /\ UNCHANGED beyondParse

(* no parse is under way *)
ParseIdle ==
    /\ file_name = <<>> /\ file_type = "Other"
    /\ file_name_parts = <<>> /\ file_extension = <<>>
    /\ part_index = 0 /\ title_end = 0 /\ episode_title_end = 0
    /\ season = NoNumber /\ episode = NoNumber /\ quality = NoNumber
    /\ parsed = NoVideoData
    /\ fpc = "idle"

(***************************************************************************)
(* Video::update_from_imdb: the info of a Video is replaced by what a      *)
(* lookup in the title database found.                                     *)
(***************************************************************************)
MaxCalls == 2

(* imdb_index::MediaEntity: a title record and, for an episode of a show,  *)
(* an episode record whose season and episode numbers may be missing       *)
NoEpisodeData == [some |-> FALSE, v |-> [id |-> "", season |-> NoNumber, episode |-> NoNumber]]

MediaEntity(id, t, year, ep) ==
    [title |-> [id |-> id, title |-> t, start_year |-> year], episode |-> ep]

EpisodeData(id, se, ep) == Some([id |-> id, season |-> se, episode |-> ep])

(* imdb::Results *)
ResultsMovie(m) == [kind |-> "Movie", series |-> m, episode |-> m]
ResultsEpisode(se, ep) == [kind |-> "Episode", series |-> se, episode |-> ep]

(* the titles a lookup may find, and the episodes: complete, without a     *)
(* season number, without an episode number, without episode data          *)
FoundTitles ==
    {MediaEntity("tt900", "Found", Some(2001), NoEpisodeData),
     MediaEntity("tt901", "Other", NoNumber, NoEpisodeData)}

FoundEpisodes ==
    {MediaEntity("tt910", "Pilot", Some(2002), EpisodeData("tt910", Some(4), Some(9))),
     MediaEntity("tt911", "Pilot", Some(2002), EpisodeData("tt911", NoNumber, Some(9))),
     MediaEntity("tt912", "Pilot", Some(2002), EpisodeData("tt912", Some(4), NoNumber)),
     MediaEntity("tt913", "Pilot", Some(2002), NoEpisodeData)}

Lookups ==
    {ResultsMovie(m) : m \in FoundTitles}
        \cup {ResultsEpisode(se, ep) : se \in FoundTitles, ep \in FoundEpisodes}

(* impl From<&MediaEntity> for Entity *)
EntityFrom(m) == Entity(m.title.title, unwrap_or(m.title.start_year, 0), Some(m.title.id))

(* impl TryFrom<(&MediaEntity, &MediaEntity)> for Episode, on (episode,    *)
(* series): Ok(Episode) or the message of the Err                          *)
try_from(ep, se) ==
    IF ep.episode.some
    THEN IF ~ep.episode.v.episode.some
         THEN [ok |-> FALSE, ep |-> Episode(0, 0, "", None, Entity("", 0, None)),
               err |-> "does not contain episode.episode"]
         ELSE IF ~ep.episode.v.season.some
         THEN [ok |-> FALSE, ep |-> Episode(0, 0, "", None, Entity("", 0, None)),
               err |-> "does not contain episode.season"]
         ELSE [ok |-> TRUE,
               ep |-> Episode(ep.episode.v.episode.v, ep.episode.v.season.v, ep.title.title,
                              Some(ep.episode.v.id), EntityFrom(se)),
               err |-> ""]
    ELSE [ok |-> FALSE, ep |-> Episode(0, 0, "", None, Entity("", 0, None)),
          err |-> "does not contain episode data"]

(* a Video: its path, its type and extension, its VideoData (info and      *)
(* Metadata)                                                               *)
Video(path, ft, info, md) ==
    [path |-> path, file_type |-> ft, file_extension |-> Extension(ft),
     info |-> info, metadata |-> md]

(* faulty variant: a failed conversion leaves the series of the lookup in  *)
(* the Episode                                                             *)
update_from_imdb_Partial(v, r) ==
    IF v.info.kind = "Movie" /\ r.kind = "Movie"
    THEN [res |-> "ok", self |-> [v EXCEPT !.info = Movie(EntityFrom(r.series))]]
    ELSE IF v.info.kind = "Episode" /\ r.kind = "Episode"
    THEN LET t == try_from(r.episode, r.series)
         IN  IF t.ok
             THEN [res |-> "ok", self |-> [v EXCEPT !.info = EpisodeOf(t.ep)]]
             ELSE [res |-> t.err,
                   self |-> [v EXCEPT !.info = EpisodeOf([v.info.ep EXCEPT
                                                    !.series = EntityFrom(r.series)])]]
    ELSE [res |-> "panic", self |-> v]

(* faulty variant: the Metadata is built anew from the quality number 0 *)
update_from_imdb_NewMetadata(v, r) ==
    IF v.info.kind = "Movie" /\ r.kind = "Movie"
    THEN [res |-> "ok", self |-> [v EXCEPT !.info = Movie(EntityFrom(r.series)),
                                           !.metadata = from_vertical_resolution(0, NoLength)]]
    ELSE IF v.info.kind = "Episode" /\ r.kind = "Episode"
    THEN LET t == try_from(r.episode, r.series)
         IN  IF t.ok
             THEN [res |-> "ok", self |-> [v EXCEPT !.info = EpisodeOf(t.ep)]]
             ELSE [res |-> t.err, self |-> v]
    ELSE [res |-> "panic", self |-> v]

(* the match of update_from_imdb: what the call returns and the Video it   *)
(* leaves; a Movie with an Episode result, or the reverse, is unreachable!()*)
update_from_imdb(v, r) ==
    IF v.info.kind = "Movie" /\ r.kind = "Movie"
    THEN [res |-> "ok", self |-> [v EXCEPT !.info = Movie(EntityFrom(r.series))]]
    ELSE IF v.info.kind = "Episode" /\ r.kind = "Episode"
    THEN LET t == try_from(r.episode, r.series)
         IN  IF t.ok
             THEN [res |-> "ok", self |-> [v EXCEPT !.info = EpisodeOf(t.ep)]]
             ELSE [res |-> t.err, self |-> v]
    ELSE [res |-> "panic", self |-> v]

(* one call of update_from_imdb with a lookup result *)
UpdateFromImdb ==
    /\ outcome \notin {"idle", "panic"}
    /\ calls < MaxCalls
    /\ \E r \in Lookups :
        /\ entity' = r
        /\ self' = update_from_imdb(self, r).self
        /\ outcome' = update_from_imdb(self, r).res
    /\ calls' = calls + 1
    /\ UNCHANGED built
    /\ UNCHANGED beyondUpdate

(* the Videos the calls are made on: what from_path builds for a           *)
(* Matroska file and for another file                                      *)
BuiltVideos ==
    {Video(<<"a">>, "MKV", v, o.result.md) :
        v \in Videos, o \in {x \in MatroskaOutcomes : x.xpc = "ok"}}
    \cup {Video(<<"a">>, "Other", v, from_vertical_resolution(q, NoLength)) :
            v \in Videos, q \in {0, 1080}}

(* no update is under way *)
UpdateIdle ==
    /\ self = Video(<<>>, "Other", Movie(Entity("", 0, None)), Metadata(<<0, 0>>, NoLength))
    /\ built = self
    /\ entity = ResultsMovie(MediaEntity("", "", NoNumber, NoEpisodeData))
    /\ outcome = "idle"
    /\ calls = 0

(***************************************************************************)
(* The loop of main over the videos, for one video: the files it reads,    *)
(* creates, renames and removes.                                           *)
(***************************************************************************)
(* file.path, new_file_path, new_file_path.with_extension("with_meta"),    *)
(* new_file_path.with_extension("mkv.bak")                                 *)
Paths == {"path", "new_file_path", "meta_path", "backup_path"}

Absent == "absent"

(* what insert_into_matroska writes when it reads content c to its end,    *)
(* and what a file holds when the writing was cut short                    *)
Injected(c) == c \o "+tags"
Partial == "partial"

(* the calls on the file system, in the order a step makes them *)
OpOpen(p) == [op |-> "open", path |-> p, to |-> p, content |-> ""]
OpCreateNew(p) == [op |-> "create_new", path |-> p, to |-> p, content |-> ""]
OpCopy(p, c) == [op |-> "copy", path |-> p, to |-> p, content |-> c]
OpInsert(p, c) == [op |-> "insert_into_matroska", path |-> p, to |-> p, content |-> c]
OpRename(p, q) == [op |-> "rename", path |-> p, to |-> q, content |-> ""]
OpRemove(p) == [op |-> "remove_file", path |-> p, to |-> p, content |-> ""]

(* the call cannot succeed on these files *)
MustFail(f, o) ==
    CASE o.op = "create_new" -> f[o.path] # Absent
      [] OTHER -> f[o.path] = Absent

(* the files after the call succeeded *)
Done(f, o) ==
    CASE o.op = "create_new" -> [f EXCEPT ![o.path] = Partial]
      [] o.op \in {"copy", "insert_into_matroska"} -> [f EXCEPT ![o.path] = o.content]
      [] o.op = "rename" -> IF o.to = o.path THEN f
                            ELSE [f EXCEPT ![o.to] = f[o.path], ![o.path] = Absent]
      [] o.op = "remove_file" -> [f EXCEPT ![o.path] = Absent]
      [] OTHER -> f

(* the files after the first j of the calls, each of which succeeded; and  *)
(* whether they can all have succeeded                                     *)
RECURSIVE After(_, _, _)
After(f, ops, j) ==
    IF j = 0 THEN f ELSE Done(After(f, ops, j - 1), ops[j])

Feasible(f, ops, j) == \A i \in 1..j : ~MustFail(After(f, ops, i - 1), ops[i])

(* the calls are made in order with `?`: all succeed and the step goes on  *)
(* to `next`, or one fails and main returns its error; a call of           *)
(* insert_into_matroska may also panic, on a SimpleTag it takes to be      *)
(* unreachable                                                             *)
Perform(ops, next) ==
    \E j \in 0..Len(ops) :
        /\ Feasible(fs, ops, j)
        /\ fs' = After(fs, ops, j)
        /\ IF j = Len(ops) THEN lpc' = next
           ELSE \/ lpc' = "error"
                \/ /\ ops[j + 1].op = "insert_into_matroska"
                   /\ lpc' = "panic"

(* the file a path names.  The four paths need not name four files:        *)
(* to_directory.join(new_file_name) is file.path itself when to_directory  *)
(* is the directory of the file (both are the current directory by         *)
(* default) and the file has its generated name already;                   *)
(* new_file_path.with_extension("mkv.bak") is file.path when the file is   *)
(* <new stem>.mkv.bak in to_directory (its extension is "bak", and a file  *)
(* is taken for its content, whatever its name); and                       *)
(* new_file_path.with_extension("with_meta") is new_file_path when the     *)
(* extension of the file is "with_meta".  opts.names gives for each path   *)
(* the path that stands for its file                                       *)
File(p) == opts.names[p]

(* the head of the loop body: the new name is made, and in a build with    *)
(* the feature "imdb" the video is looked up and updated from what was     *)
(* found.  search_for_video returns a result of the kind of the video or   *)
(* an Err, which is passed over, or panics when nothing was found; the Err *)
(* of update_from_imdb is returned by main                                 *)
LoopLookup ==
    /\ lpc = "start"
    /\ IF ~opts.imdb THEN lpc' = "named"
       ELSE \/ lpc' = "named"
            \/ lpc' = "panic"
            \/ \E file \in BuiltVideos, r \in Lookups :
                    /\ file.file_type = opts.file_type
                    /\ r.kind = file.info.kind
                    /\ lpc' = CASE update_from_imdb(file, r).res = "ok" -> "named"
                                [] update_from_imdb(file, r).res = "panic" -> "panic"
                                [] OTHER -> "error"
    /\ UNCHANGED <<fs, fs0, opts, is_copied, is_metadata_written>>
    /\ UNCHANGED beyondLoop

(* `if dry_run { continue; }` *)
LoopDryRun ==
    /\ lpc = "named"
    /\ opts.dry_run
    /\ lpc' = "done"
    /\ UNCHANGED <<fs, fs0, opts, is_copied, is_metadata_written>>
    /\ UNCHANGED beyondLoop

(* `match metadata(&new_file_path)`: NotFound, Ok, or another error *)
LoopProbe ==
    /\ lpc = "named"
    /\ ~opts.dry_run
    /\ \/ /\ fs[File("new_file_path")] = Absent
          /\ lpc' = "checked"
          /\ UNCHANGED is_copied
       \/ /\ fs[File("new_file_path")] # Absent
          /\ lpc' = "checked"
          /\ is_copied' = TRUE
       \/ /\ lpc' = "panic"
          /\ UNCHANGED is_copied
    /\ UNCHANGED <<fs, fs0, opts, is_metadata_written>>
    /\ UNCHANGED beyondLoop

(* `if !is_copied` with same_drive && delete_old: std::fs::rename *)
LoopRename ==
    /\ lpc = "checked"
    /\ ~is_copied
    /\ opts.same_drive /\ opts.delete_old
    /\ Perform(<<OpRename("path", File("new_file_path"))>>, "moved")
    /\ UNCHANGED <<fs0, opts, is_copied, is_metadata_written>>
    /\ UNCHANGED beyondLoop

(* `if !is_copied` otherwise: the new file is created and written, with    *)
(* the metadata for a Matroska file, and the old one removed on delete_old *)
LoopCopy ==
    /\ lpc = "checked"
    /\ ~is_copied
    /\ ~(opts.same_drive /\ opts.delete_old)
    /\ Perform(<<OpOpen("path"), OpCreateNew(File("new_file_path")),
                 IF opts.file_type = "MKV"
                 THEN OpInsert(File("new_file_path"), Injected(fs["path"]))
                 ELSE OpCopy(File("new_file_path"), fs["path"])>>
               \o (IF opts.delete_old THEN <<OpRemove("path")>> ELSE <<>>),
               "moved")
    /\ is_metadata_written' =
            (opts.file_type = "MKV" /\ fs'[File("new_file_path")] \notin {Absent, Partial})
    /\ UNCHANGED <<fs0, opts, is_copied>>
    /\ UNCHANGED beyondLoop

(* `if !is_copied` is false: the block is passed over *)
LoopSkip ==
    /\ lpc = "checked"
    /\ is_copied
    /\ lpc' = "moved"
    /\ UNCHANGED <<fs, fs0, opts, is_copied, is_metadata_written>>
    /\ UNCHANGED beyondLoop

(* `if !is_metadata_written && file.file_type == FileType::MKV`: the file  *)
(* at new_file_path is written anew with the metadata, and that is the     *)
(* source file when the two are one; the rename to backup_path replaces    *)
(* the source file when backup_path is file.path                           *)
LoopUpdateMetadata ==
    /\ lpc = "moved"
    /\ ~is_metadata_written /\ opts.file_type = "MKV"
    /\ Perform(<<OpOpen(File("new_file_path")), OpCreateNew(File("meta_path")),
                 OpInsert(File("meta_path"), Injected(fs[File("new_file_path")]))>>
               \o (IF ~opts.delete_old
                   THEN <<OpRename(File("new_file_path"), File("backup_path"))>>
                   ELSE <<>>)
               \o <<OpRename(File("meta_path"), File("new_file_path"))>>,
               "done")
    /\ UNCHANGED <<fs0, opts, is_copied, is_metadata_written>>
    /\ UNCHANGED beyondLoop

(* the end of the loop body *)
LoopEnd ==
    /\ lpc = "moved"
    /\ ~(~is_metadata_written /\ opts.file_type = "MKV")
    /\ lpc' = "done"
    /\ UNCHANGED <<fs, fs0, opts, is_copied, is_metadata_written>>
    /\ UNCHANGED beyondLoop

(* the files a video may find under the naming n: its own, and maybe one   *)
(* at each other path; a path that names the file of another path stands   *)
(* for no file of its own and its entry stays Absent                       *)
FileSystems(n) ==
    {f \in [Paths -> {Absent, "old", "there", "meta", "backup"}] :
        /\ f["path"] = "old"
        /\ f["new_file_path"] \in {Absent, "there"}
        /\ f["meta_path"] \in {Absent, "meta"}
        /\ f["backup_path"] \in {Absent, "backup"}
        /\ \A p \in Paths : n[p] # p => f[p] = Absent}

(* the options of the run, the type of the video, whether the build has    *)
(* the feature "imdb", and the files the four paths name: four files;      *)
(* new_file_path is file.path; backup_path is file.path; meta_path is      *)
(* new_file_path; or meta_path, new_file_path and file.path are one        *)
Options ==
    [dry_run : BOOLEAN, same_drive : BOOLEAN, delete_old : BOOLEAN, file_type : FileTypes,
     imdb : BOOLEAN,
     names : {n \in [Paths -> Paths] :
                /\ n["path"] = "path"
                /\ n["new_file_path"] \in {"new_file_path", "path"}
                /\ n["meta_path"] \in {"meta_path", n["new_file_path"]}
                /\ n["backup_path"] \in {"backup_path", "path"}
                /\ n["backup_path"] = "path" =>
                        (n["new_file_path"] = "new_file_path" /\ n["meta_path"] = "meta_path")}]

(* the loop is not running *)
LoopIdle ==
    /\ fs = [p \in Paths |-> Absent]
    /\ fs0 = fs
    /\ opts = [dry_run |-> TRUE, same_drive |-> FALSE, delete_old |-> FALSE,
               file_type |-> "Other", imdb |-> FALSE, names |-> [p \in Paths |-> p]]
    /\ is_copied = FALSE /\ is_metadata_written = FALSE
    /\ lpc = "idle"

(* no classification is under way *)
ClassifyIdle ==
    /\ meta = Metadata(<<0, 0>>, NoLength)
    /\ best_resolution = 0 /\ tier = 0 /\ quality_class = 0
    /\ cpc = "idle"

(* no extraction is under way *)
ExtractIdle ==
    /\ stream = <<>> /\ xpos = 0
    /\ data = MatroskaData
    /\ result = NoMetadata
    /\ xpc = "idle"

(* no injection is under way *)
InjectIdle ==
    /\ video = Movie(Entity("", 0, None))
    /\ order = <<>>
    /\ run = 1
    /\ src = <<>> /\ stack = <<>> /\ feed = <<>>
    /\ out = <<>> /\ origin = <<>> /\ first = [src |-> <<>>, out |-> <<>>]
    /\ info_written = FALSE /\ tags_written = FALSE
    /\ in_info = FALSE /\ in_tags = FALSE /\ in_tag = FALSE
    /\ failed = "none"
    /\ pc = "idle"

Init ==
    /\ video \in Videos
    /\ order \in Orders(video)
    /\ run = 1
    /\ src = <<>> /\ stack = <<>> /\ feed = <<>>
    /\ out = <<>> /\ origin = <<>> /\ first = [src |-> <<>>, out |-> <<>>]
    /\ info_written = FALSE /\ tags_written = FALSE
    /\ in_info = FALSE /\ in_tags = FALSE /\ in_tag = FALSE
    /\ failed = "none"
    /\ pc = "loop"
    /\ ExtractIdle
    /\ ClassifyIdle
    /\ ParseIdle
    /\ UpdateIdle
    /\ LoopIdle

Next ==
    \/ ReadInfo
    \/ ReadTags
    \/ ReadInInfo
    \/ ReadInTags
    \/ ReadUnreachable
    \/ ReadOther
    \/ DecodeError
    \/ Finish

Spec == Init /\ [][Next]_vars

(* the engine run on a source and then once more on its own output *)
NextTwice ==
    \/ Next
    \/ Reinject

InitTwice == Init /\ Cardinality(NonEmptyKeys(video)) <= MaxKeysTwice

SpecTwice == InitTwice /\ [][NextTwice]_vars

(* Metadata::from_matroska run on a stream *)
InitExtract ==
    /\ InjectIdle
    /\ stream \in Streams
    /\ xpos = 0
    /\ data = MatroskaData
    /\ result = NoMetadata
    /\ xpc = "loop"
    /\ ClassifyIdle
    /\ ParseIdle
    /\ UpdateIdle
    /\ LoopIdle

NextExtract ==
    \/ ExtractTag
    \/ ExtractSkip
    \/ ExtractEnd

SpecExtract == InitExtract /\ [][NextExtract]_vars

(* Metadata::get_resolution called on a Metadata *)
InitClassify ==
    /\ InjectIdle
    /\ ExtractIdle
    /\ meta \in Metadatas
    /\ best_resolution = 0 /\ tier = 0 /\ quality_class = 0
    /\ cpc = "call"
    /\ ParseIdle
    /\ UpdateIdle
    /\ LoopIdle

NextClassify ==
    \/ GetResolutionEnter
    \/ GetResolutionStep
    \/ GetResolutionFallThrough

SpecClassify == InitClassify /\ [][NextClassify]_vars

(* Video::from_path called on a file name *)
InitParse ==
    /\ InjectIdle
    /\ ExtractIdle
    /\ ClassifyIdle
    /\ file_type \in FileTypes
    /\ file_name \in FileNames(file_type)
    /\ file_name_parts = <<>> /\ file_extension = <<>>
    /\ part_index = 0 /\ title_end = 0 /\ episode_title_end = 0
    /\ season = NoNumber /\ episode = NoNumber /\ quality = NoNumber
    /\ parsed = NoVideoData
    /\ fpc = "call"
    /\ UpdateIdle
    /\ LoopIdle

NextParse ==
    \/ FromPathSplit
    \/ FromPathScan
    \/ FromPathBuild
    \/ FromPathBuildMatroska

SpecParse == InitParse /\ [][NextParse]_vars

(* Video::update_from_imdb called on a Video, time after time *)
InitUpdate ==
    /\ InjectIdle
    /\ ExtractIdle
    /\ ClassifyIdle
    /\ ParseIdle
    /\ self \in BuiltVideos
    /\ built = self
    /\ entity = ResultsMovie(MediaEntity("", "", NoNumber, NoEpisodeData))
    /\ outcome = "new"
    /\ calls = 0
    /\ LoopIdle

NextUpdate ==
    \/ UpdateFromImdb

SpecUpdate == InitUpdate /\ [][NextUpdate]_vars

(* the body of the loop of main for one video *)
InitLoop ==
    /\ InjectIdle
    /\ ExtractIdle
    /\ ClassifyIdle
    /\ ParseIdle
    /\ UpdateIdle
    /\ opts \in Options
    /\ fs \in FileSystems(opts.names)
    /\ fs0 = fs
    /\ is_copied = FALSE /\ is_metadata_written = FALSE
    /\ lpc = "start"

NextLoop ==
    \/ LoopLookup
    \/ LoopDryRun
    \/ LoopProbe
    \/ LoopRename
    \/ LoopCopy
    \/ LoopSkip
    \/ LoopUpdateMetadata
    \/ LoopEnd

SpecLoop == InitLoop /\ [][NextLoop]_vars

(***************************************************************************)
(* Vocabulary of the properties.                                           *)
(***************************************************************************)
(* event k of s lies inside a section `id` that is open at k *)
InSection(s, k, id) ==
    \E i \in 1..(k - 1) :
        /\ s[i].id = id /\ s[i].mode = "Start"
        /\ \A j \in (i + 1)..(k - 1) : ~(s[j].id = id /\ s[j].mode = "End")

(* the index of the End that closes the section `id` opened at i, 0 if none *)
CloseOf(s, i, id) ==
    LET hits == {j \in (i + 1)..Len(s) : s[j].id = id /\ s[j].mode = "End"}
    IN  IF hits = {} THEN 0 ELSE CHOOSE j \in hits : \A h \in hits : j <= h

HasSection(s, id) == \E i \in 1..Len(s) : s[i].id = id

IsPair(e) ==
    /\ e.id = "SimpleTag" /\ e.mode = "Full"
    /\ FindKid(e.kids, "TagName") # 0 /\ FindKid(e.kids, "TagString") # 0

NameOf(e) == e.kids[FindKid(e.kids, "TagName")].val
StringOf(e) == e.kids[FindKid(e.kids, "TagString")].val

(* the positions of the sink that hold source event k *)
WrittenAt(k) == {i \in 1..Len(out) : origin[i] = k}

SectionStarts ==
    {Start("Tracks"), Start("Chapters"), Start("Cluster"), Start("Cues"),
     Start("Attachments"), Start("Tags")}

FirstTrigger ==
    LET hits == {i \in 1..Len(src) : src[i] \in SectionStarts}
    IN  IF hits = {} THEN 0 ELSE CHOOSE i \in hits : \A j \in hits : i <= j

(***************************************************************************)
(* C1: every Info section of the sink (Start .. End, or Full) holds        *)
(* exactly one Title, it is the engine's Title and carries the supplied    *)
(* title, and no Title that the source held inside Info is in the sink.    *)
(***************************************************************************)
C1_OneTitleInInfo ==
    /\ \A i \in 1..Len(out) :
          (out[i] = Start("Info") /\ CloseOf(out, i, "Info") # 0) =>
              LET j == CloseOf(out, i, "Info")
                  ts == {t \in (i + 1)..(j - 1) : out[t].id = "Title"}
              IN  /\ Cardinality(ts) = 1
                  /\ \A t \in ts : out[t] = title(video) /\ origin[t] = 0
    /\ \A i \in 1..Len(out) :
          (out[i].id = "Info" /\ out[i].mode = "Full") => out[i].kids = <<title(video)>>
    /\ \A k \in 1..Len(src) :
          (src[k].id = "Title" /\ InSection(src, k, "Info")) => WrittenAt(k) = {}

(* a finished run over a source whose Info held two Titles in a row *)
C1_Witness ==
    /\ pc = "done"
    /\ \E k \in 2..Len(src) :
          /\ src[k].id = "Title" /\ src[k - 1].id = "Title"
          /\ InSection(src, k, "Info")
    /\ \E i \in 1..Len(out) : out[i] = End("Info")

(***************************************************************************)
(* C2: while nothing has failed, a source without an Info section gets     *)
(* exactly one Info in the sink, Full with only the title, right before    *)
(* the first section start among Tracks, Chapters, Cluster, Cues,          *)
(* Attachments and Tags; and none at all if no such start was read.        *)
(***************************************************************************)
C2_SynthesizedInfo ==
    (failed = "none" /\ ~HasSection(src, "Info")) =>
        LET infos == {i \in 1..Len(out) : out[i].id = "Info"} IN
        IF FirstTrigger = 0
        THEN infos = {}
        ELSE \E i \in 1..(Len(out) - 1) :
                /\ infos = {i}
                /\ out[i] = Full("Info", <<title(video)>>)
                /\ origin[i] = 0
                /\ origin[i + 1] = FirstTrigger
                /\ out[i + 1] = src[FirstTrigger]

(* a finished run over a source with no Info, where Tracks precedes Tags *)
C2_Witness ==
    /\ pc = "done"
    /\ ~HasSection(src, "Info")
    /\ \E i, j \in 1..Len(src) :
          i < j /\ src[i] = Start("Tracks") /\ src[j] = Start("Tags") /\ FirstTrigger = i

(***************************************************************************)
(* C3: every SimpleTag of the source inside Tags that holds a TagName and  *)
(* a TagString is absent from the sink when its name is one of the six     *)
(* reserved keys, and written once, unchanged, when it is not.             *)
(***************************************************************************)
C3_ReservedDropped ==
    pc = "done" =>
        \A k \in 1..Len(src) :
            (IsPair(src[k]) /\ InSection(src, k, "Tags")) =>
                IF NameOf(src[k]) \in ReservedKeys
                THEN WrittenAt(k) = {}
                ELSE /\ Cardinality(WrittenAt(k)) = 1
                     /\ \A i \in WrittenAt(k) : out[i] = src[k]

(***************************************************************************)
(* C4: for every key of the dictionary, the sink of a finished run holds   *)
(* exactly one SimpleTag of that name, carrying the dictionary's value,    *)
(* when the value is non-empty, and none when it is empty.                 *)
(***************************************************************************)
TagsNamed(s, n) == {i \in 1..Len(s) : IsPair(s[i]) /\ NameOf(s[i]) = n}

C4_OneTagPerKey ==
    pc = "done" =>
        LET seen == Reread(out) IN
        \A n \in DOMAIN tags(video) :
            IF tags(video)[n] = ""
            THEN TagsNamed(seen, n) = {}
            ELSE /\ Cardinality(TagsNamed(seen, n)) = 1
                 /\ \A i \in TagsNamed(seen, n) : StringOf(seen[i]) = tags(video)[n]

(***************************************************************************)
(* C5: a finished run over a source without a Tags section (Tags Start to  *)
(* Tags End) ends with one Tags section, built by the engine after all     *)
(* that the source gave rise to, holding the Tag block, and no other Tags  *)
(* section is closed in the sink; over a source with a Tags section the    *)
(* last event of the sink is an event of the source, and the source events *)
(* after it are Title leaves and whole SimpleTags, which the engine drops. *)
(***************************************************************************)
C5_TagsAtEnd ==
    pc = "done" =>
        IF \E i \in 1..Len(src) : src[i] = End("Tags")
        THEN /\ out # <<>>
             /\ origin[Len(out)] # 0
             /\ \A i \in (origin[Len(out)] + 1)..Len(src) :
                    /\ src[i].id \in {"Title", "SimpleTag"}
                    /\ src[i].mode \in {"Leaf", "Full"}
        ELSE LET blk == <<Start("Tags")>> \o TagBlock(video, order) \o <<End("Tags")>>
                 at == Len(out) - Len(blk)
             IN  /\ at >= 0
                 /\ SubSeq(out, at + 1, Len(out)) = blk
                 /\ \A i \in (at + 1)..Len(out) : origin[i] = 0
                 /\ \A i \in 1..at : out[i] # End("Tags")

(* a finished run over a non-empty source that has no Tags section *)
C5_Witness ==
    /\ pc = "done"
    /\ src # <<>>
    /\ ~HasSection(src, "Tags")
    /\ HasSection(src, "Info")

(***************************************************************************)
(* C6: in a finished run every source event, other than a Title inside     *)
(* Info and a SimpleTag pair with a reserved name inside Tags, is in the   *)
(* sink exactly once and unchanged; the source events of the sink keep     *)
(* their source order; what the engine built itself is a Title, an Info,   *)
(* or part of a Tags section or Tag block.                                 *)
(***************************************************************************)
MayBeRewritten(k) ==
    \/ src[k].id = "Title" /\ InSection(src, k, "Info")
    \/ /\ IsPair(src[k]) /\ InSection(src, k, "Tags")
       /\ NameOf(src[k]) \in ReservedKeys

EngineIds == {"Title", "Info", "Tags", "Tag", "Targets", "SimpleTag", "TagName", "TagString"}

C6_PassThrough ==
    pc = "done" =>
        /\ \A k \in 1..Len(src) : ~MayBeRewritten(k) => Cardinality(WrittenAt(k)) = 1
        /\ \A i \in 1..Len(out) : origin[i] # 0 => out[i] = src[origin[i]]
        /\ \A i, j \in 1..Len(out) :
              (i < j /\ origin[i] # 0 /\ origin[j] # 0) => origin[i] < origin[j]
        /\ \A i \in 1..Len(out) : origin[i] = 0 => out[i].id \in EngineIds

(***************************************************************************)
(* C7: injecting into the sink of a finished run, with the same video,     *)
(* gives a sink that reads back as the same event sequence as the first    *)
(* one (stated for a source that held an Info and a Tags section).         *)
(***************************************************************************)
C7_Idempotent ==
    (/\ run = 2 /\ pc = "done"
     /\ HasSection(first.src, "Info") /\ HasSection(first.src, "Tags")) =>
        Reread(out) = Reread(first.out)

(***************************************************************************)
(* C9: for a source whose events nest properly, the sink is always a       *)
(* prefix of a well-formed event sequence (every End closes the innermost  *)
(* open Start), and after a finished run over a source that closed every   *)
(* element it opened nothing is left open.                                 *)
(***************************************************************************)
RECURSIVE Nesting(_, _)
(* the stack of open elements after s, starting from st; <<"!">> once an End
   does not close the innermost open element *)
Nesting(s, st) ==
    IF s = <<>> THEN st
    ELSE LET e == Head(s) IN
         CASE e.mode = "Start" -> Nesting(Tail(s), Append(st, e.id))
           [] e.mode = "End" ->
                IF st # <<>> /\ st[Len(st)] = e.id
                THEN Nesting(Tail(s), SubSeq(st, 1, Len(st) - 1))
                ELSE <<"!">>
           [] OTHER -> Nesting(Tail(s), st)

C9_WellFormedSink ==
    Nesting(src, <<>>) # <<"!">> =>
        /\ Nesting(out, <<>>) # <<"!">>
        /\ (pc = "done" /\ Nesting(src, <<>>) = <<>>) => Nesting(out, <<>>) = <<>>

(* a finished run that wrote its own Info and closed its own Tag block *)
C9_Witness ==
    /\ pc = "done"
    /\ Len(src) = MaxLen
    /\ Nesting(src, <<>>) = <<>>
    /\ \E i \in 1..Len(out) : out[i] = End("SimpleTag") /\ origin[i] = 0
    /\ \E i \in 1..Len(out) : out[i].id = "Info" /\ out[i].mode = "Full"

(***************************************************************************)
(* C10: once a read or a write has failed the run has returned an error;   *)
(* the failing read writes nothing; after a failure nothing more is read   *)
(* or written; a run cut by a decode error has not written the             *)
(* end-of-stream Tags section.                                             *)
(***************************************************************************)
C10_ErrorStops ==
    /\ [](failed # "none" => pc = "error")
    /\ [](failed = "decode" =>
            \A i \in 1..Len(out) : origin[i] = 0 => out[i].id # "Tags")
    /\ [][(failed' = "decode" /\ failed = "none") => (out' = out /\ src' = src)]_vars
    /\ [][failed # "none" => (out' = out /\ src' = src /\ pc' = pc)]_vars

(* a decode error in the middle of a Tags section, after events were written *)
C10_Witness ==
    /\ failed = "decode"
    /\ pc = "error"
    /\ in_tags /\ ~tags_written
    /\ out # <<>>

(***************************************************************************)
(* Vocabulary of the extraction properties: what the first k items of the  *)
(* stream have supplied.                                                   *)
(***************************************************************************)
Supplied(id, k) == {i \in 1..k : stream[i].ok /\ stream[i].id = id}

Known(id, k) == Supplied(id, k) # {}

(* the value of the last `id` tag among the first k items *)
LastOf(id, k) ==
    stream[CHOOSE i \in Supplied(id, k) : \A j \in Supplied(id, k) : j <= i].n

(* the f64 of the last Duration among the first k items *)
LastDuration(k) ==
    LET t == stream[CHOOSE i \in Supplied("Duration", k) :
                        \A j \in Supplied("Duration", k) : j <= i]
    IN  F64(t.class, t.n)

PixelPair(k) == Known("PixelWidth", k) /\ Known("PixelHeight", k)

DisplayPair(k) == Known("DisplayWidth", k) /\ Known("DisplayHeight", k)

(***************************************************************************)
(* C11: a successful extraction reports the display pair whenever the      *)
(* stream supplied both a DisplayWidth and a DisplayHeight before the pass *)
(* ended, and the pixel pair only otherwise; each of the two display       *)
(* values is kept in its own field.                                        *)
(***************************************************************************)
C11_DisplayOverrides ==
    /\ (xpc = "ok" /\ DisplayPair(xpos)) =>
            result.md.resolution =
                <<LastOf("DisplayWidth", xpos), LastOf("DisplayHeight", xpos)>>
    /\ (xpc = "ok" /\ ~DisplayPair(xpos)) =>
            result.md.resolution =
                <<LastOf("PixelWidth", xpos), LastOf("PixelHeight", xpos)>>
    /\ Known("DisplayWidth", xpos) =>
            data.display_width = Some(LastOf("DisplayWidth", xpos))
    /\ Known("DisplayHeight", xpos) =>
            data.display_height = Some(LastOf("DisplayHeight", xpos))

(***************************************************************************)
(* C12: the pass returns success at the first item after which a duration  *)
(* and a complete pair, pixel or display, are known, and takes no item     *)
(* after that one.                                                         *)
(***************************************************************************)
C12_SuccessAtFirstPair ==
    LET Enough(k) == Known("Duration", k) /\ (PixelPair(k) \/ DisplayPair(k))
    IN  /\ xpos >= 1 => ~Enough(xpos - 1)
        /\ Enough(xpos) <=> xpc = "ok"
        /\ xpc = "ok" <=> result.some

(***************************************************************************)
(* C13: the pass fails, returning no Metadata, exactly when the stream     *)
(* ends before a duration and a resolution (a pixel pair or a display      *)
(* pair) are known; a stream without Duration fails; a returned Metadata   *)
(* has a length and a resolution that the stream supplied.                 *)
(***************************************************************************)
C13_FailsWhenNoPair ==
    LET Enough(k) == Known("Duration", k) /\ (PixelPair(k) \/ DisplayPair(k))
        n == Len(stream)
        Widths == {stream[i].n : i \in Supplied("PixelWidth", xpos)
                                        \cup Supplied("DisplayWidth", xpos)}
        Heights == {stream[i].n : i \in Supplied("PixelHeight", xpos)
                                        \cup Supplied("DisplayHeight", xpos)}
    IN  /\ xpc = "err" => (xpos = n /\ ~Enough(n) /\ ~result.some)
        /\ (xpc \in {"ok", "err", "panic"} /\ ~Enough(n)) => xpc = "err"
        /\ (xpc \in {"ok", "err", "panic"} /\ ~Known("Duration", n)) => xpc = "err"
        /\ result.some =>
            /\ xpc = "ok"
            /\ result.md.length = Some(from_secs_f64(LastDuration(xpos)).d)
            /\ result.md.resolution[1] \in Widths
            /\ result.md.resolution[2] \in Heights

(***************************************************************************)
(* C14: when the stream holds one Duration, one PixelWidth and one         *)
(* PixelHeight among its other items, the pass on the stream with these    *)
(* three rearranged among their positions in any way ends as the pass on   *)
(* the stream itself did, with the same Metadata.                          *)
(***************************************************************************)
ThreeAt == {i \in 1..Len(stream) : stream[i].ok /\ stream[i].id \in Three}

OneOfEach == \A id \in Three : Cardinality(Supplied(id, Len(stream))) = 1

Rearranged(f) == [i \in 1..Len(stream) |-> IF i \in ThreeAt THEN stream[f[i]] ELSE stream[i]]

C14_OrderIndependent ==
    (xpc \in {"ok", "err", "panic"} /\ OneOfEach) =>
        \A f \in [ThreeAt -> ThreeAt] :
            (\A i, j \in ThreeAt : i # j => f[i] # f[j]) =>
                from_matroska(Rearranged(f)) = [xpc |-> xpc, result |-> result]

(* the three arrived height first and duration last, between other items *)
C14_Witness ==
    /\ xpc = "ok"
    /\ OneOfEach
    /\ Len(stream) = MaxStream
    /\ \E h, w, d \in ThreeAt :
            /\ h + 1 < w /\ w + 1 < d
            /\ stream[h].id = "PixelHeight"
            /\ stream[w].id = "PixelWidth"
            /\ stream[d].id = "Duration"

(***************************************************************************)
(* C15: a decode error on one item ends the pass: no item after the        *)
(* failing one is taken and the pass does not return success.              *)
(***************************************************************************)
C15_DecodeErrorAborts ==
    \A k \in 1..xpos : ~stream[k].ok => (xpos = k /\ xpc # "ok")

(***************************************************************************)
(* C16: with v the effective vertical resolution, the larger of the 16:9   *)
(* height of the width and the height, get_resolution returns v itself     *)
(* when v is below 480 or above 4320, and otherwise the tier nearest to v, *)
(* the lower one when two tiers are equally near (1800 gives 1440); a v    *)
(* that is a tier is returned as it is; 1920x1080 and 1920x1088 give 1080. *)
(***************************************************************************)
Tiers == {480, 720, 1080, 1440, 2160, 4320}

Distance(a, b) == IF a >= b THEN a - b ELSE b - a

C16_NearestTier ==
    cpc = "returned" =>
        LET w == meta.resolution[1]
            h == meta.resolution[2]
            v == IF (w \div 16) * 9 > h THEN (w \div 16) * 9 ELSE h
            r == quality_class
        IN  /\ (v < 480 \/ v > 4320) => r = v
            /\ (v >= 480 /\ v <= 4320) =>
                /\ r \in Tiers
                /\ \A t \in Tiers :
                    /\ Distance(r, v) <= Distance(t, v)
                    /\ Distance(r, v) = Distance(t, v) => r <= t
            /\ v \in Tiers => r = v
            /\ v = 1800 => r = 1440
            /\ meta.resolution = <<1920, 1080>> => r = 1080
            /\ meta.resolution = <<1920, 1088>> => r = 1080

(* a height midway between 1440 and 2160 was classified *)
C16_Witness ==
    /\ cpc = "returned"
    /\ meta.resolution = <<1920, 1800>>
    /\ quality_class = 1440

(***************************************************************************)
(* Vocabulary of the parsing properties: the markers a part holds, read    *)
(* off its characters.                                                     *)
(***************************************************************************)
(* the characters that count as digits in a marker, of any script, and the *)
(* letters that count as an s without regard to case                       *)
DecimalDigits == AsciiDigits \cup {"U+0663"}
SeasonLetters == {"s", "S", "U+017F"}

(* where in t one of the letters is followed by a digit *)
HoldsAt(letters, t) ==
    {i \in 1..(Len(t) - 1) : t[i] \in letters /\ t[i + 1] \in DecimalDigits}

(* the digits that follow the first such letter *)
FirstDigits(letters, t) ==
    LET i == CHOOSE a \in HoldsAt(letters, t) : \A b \in HoldsAt(letters, t) : a <= b
        j == CHOOSE b \in (i + 1)..Len(t) :
                /\ \A k \in (i + 1)..b : t[k] \in DecimalDigits
                /\ b = Len(t) \/ t[b + 1] \notin DecimalDigits
    IN  SubSeq(t, i + 1, j)

(* the runs of three digits or more that a p follows *)
QualityRuns(t) ==
    {r \in (1..Len(t)) \X (1..Len(t)) :
        /\ r[2] - r[1] >= 2
        /\ \A k \in r[1]..r[2] : t[k] \in DecimalDigits
        /\ r[1] = 1 \/ t[r[1] - 1] \notin DecimalDigits
        /\ r[2] < Len(t) /\ t[r[2] + 1] \in {"p", "P"}}

QualityDigits(t) ==
    LET r == CHOOSE a \in QualityRuns(t) : \A b \in QualityRuns(t) : a[1] <= b[1]
    IN  SubSeq(t, r[1], r[2])

(* the digits ds are ASCII digits and the number written with them is at   *)
(* most the one written max                                                *)
FitsIn(ds, max) ==
    /\ \A k \in 1..Len(ds) : ds[k] \in AsciiDigits
    /\ LET z == StripZeros(ds)
       IN  Len(z) < Len(max) \/ (Len(z) = Len(max) /\ DigitsLeq(z, max))

HoldsSeason(t) == HoldsAt(SeasonLetters, t) # {}
HoldsEpisode(t) == HoldsAt({"e", "E"}, t) # {}
HoldsQuality(t) == QualityRuns(t) # {}

(* the part holds a marker and the number of its first match can be read *)
MarksSeason(t) == HoldsSeason(t) /\ FitsIn(FirstDigits(SeasonLetters, t), U32_MAX)
MarksEpisode(t) == HoldsEpisode(t) /\ FitsIn(FirstDigits({"e", "E"}, t), U32_MAX)
MarksQuality(t) == HoldsQuality(t) /\ FitsIn(QualityDigits(t), U64_MAX)

(* the parts of the name without the extension, read off the name itself *)
NameParts == SubSeq(split(file_name), 1, Len(split(file_name)) - 1)

(* the least index, counted from 0, of a part in the set at, or the number *)
(* of parts when there is none                                             *)
Earliest(at) ==
    IF at = {} THEN Len(NameParts)
    ELSE (CHOOSE a \in at : \A b \in at : a <= b) - 1

(***************************************************************************)
(* C17 as stated: from_path yields an Episode exactly when some part holds *)
(* an e followed by digits, with season 1 when no part holds an s followed *)
(* by digits, and a Movie otherwise.                                       *)
(***************************************************************************)
C17_EpisodeIffMarker ==
    fpc = "ok" =>
        LET ps == NameParts
        IN  /\ parsed.info.kind = "Episode" <=> \E k \in 1..Len(ps) : HoldsEpisode(ps[k])
            /\ parsed.info.kind \in {"Episode", "Movie"}
            /\ (parsed.info.kind = "Episode" /\ ~\E k \in 1..Len(ps) : HoldsSeason(ps[k]))
                    => parsed.info.ep.season = 1

(***************************************************************************)
(* C17 amended: from_path yields an Episode exactly when, in some part,    *)
(* the first e followed by digits has digits that read as a u32 number,    *)
(* with season 1 when no part has a season number that reads so, and a     *)
(* Movie otherwise, whatever quality or season markers the name holds.     *)
(***************************************************************************)
C17_EpisodeIffNumber ==
    fpc = "ok" =>
        LET ps == NameParts
        IN  /\ parsed.info.kind = "Episode" <=> \E k \in 1..Len(ps) : MarksEpisode(ps[k])
            /\ parsed.info.kind \in {"Episode", "Movie"}
            /\ (parsed.info.kind = "Episode" /\ ~\E k \in 1..Len(ps) : MarksSeason(ps[k]))
                    => parsed.info.ep.season = 1

(* an Episode with the default season from a name that has a quality too *)
C17_Witness ==
    /\ fpc = "ok"
    /\ parsed.info.kind = "Episode"
    /\ parsed.info.ep.season = 1
    /\ \A k \in 1..Len(NameParts) : ~HoldsSeason(NameParts[k])
    /\ \E k \in 1..Len(NameParts) : HoldsQuality(NameParts[k])

(***************************************************************************)
(* C18 as stated: when no part holds a season or an episode marker and     *)
(* some part holds a quality marker (three digits or more, then p), the    *)
(* result is a Movie whose title is the parts before the earliest quality  *)
(* part, joined by spaces.                                                 *)
(***************************************************************************)
C18_TitleBeforeQuality ==
    LET ps == NameParts
        qs == {k \in 1..Len(ps) : HoldsQuality(ps[k])}
    IN  (/\ fpc = "ok"
         /\ \A k \in 1..Len(ps) : ~HoldsSeason(ps[k]) /\ ~HoldsEpisode(ps[k])
         /\ qs # {})
        => /\ parsed.info.kind = "Movie"
           /\ parsed.info.ent.title = join(SubSeq(ps, 1, Earliest(qs)))

(***************************************************************************)
(* C18 amended: when no part has a season or an episode number that reads  *)
(* as u32 and some part has a quality number that reads as u64, the result *)
(* is a Movie whose title is the parts before the earliest such quality    *)
(* part, joined by spaces.                                                 *)
(***************************************************************************)
C18_TitleBeforeQualityNumber ==
    LET ps == NameParts
        qs == {k \in 1..Len(ps) : MarksQuality(ps[k])}
    IN  (/\ fpc = "ok"
         /\ \A k \in 1..Len(ps) : ~MarksSeason(ps[k]) /\ ~MarksEpisode(ps[k])
         /\ qs # {})
        => /\ parsed.info.kind = "Movie"
           /\ parsed.info.ent.title = join(SubSeq(ps, 1, Earliest(qs)))

(* a Movie named by a word, with a quality part and a part after it *)
C18_Witness ==
    /\ fpc = "ok"
    /\ parsed.info.kind = "Movie"
    /\ parsed.info.ent.title = "Show"
    /\ Len(NameParts) = MaxParts
    /\ MarksQuality(NameParts[2])

(***************************************************************************)
(* C19 as stated: the title boundary is the earliest index of a part with  *)
(* a season or an episode marker, a quality marker does not move it, and   *)
(* the title is the parts before the boundary, joined by spaces.           *)
(***************************************************************************)
C19_BoundaryBySeasonEpisode ==
    LET ps == NameParts
        b == Earliest({k \in 1..Len(ps) : MarksSeason(ps[k]) \/ MarksEpisode(ps[k])})
    IN  fpc = "ok" =>
            /\ title_end = b
            /\ (IF parsed.info.kind = "Movie" THEN parsed.info.ent.title
                ELSE parsed.info.ep.series.title) = join(SubSeq(ps, 1, b))

(***************************************************************************)
(* C19 amended: the title boundary is the earliest index of a part with a  *)
(* season, an episode or a quality marker; the quality marker also sets    *)
(* the boundary of the episode-title segment, the earliest index of a part *)
(* with a quality marker; the title is the parts before the title          *)
(* boundary, joined by spaces.                                             *)
(***************************************************************************)
C19_BoundaryByAnyMarker ==
    LET ps == NameParts
        b == Earliest({k \in 1..Len(ps) :
                        MarksSeason(ps[k]) \/ MarksEpisode(ps[k]) \/ MarksQuality(ps[k])})
    IN  fpc = "ok" =>
            /\ title_end = b
            /\ episode_title_end = Earliest({k \in 1..Len(ps) : MarksQuality(ps[k])})
            /\ (IF parsed.info.kind = "Movie" THEN parsed.info.ent.title
                ELSE parsed.info.ep.series.title) = join(SubSeq(ps, 1, b))

(* a quality part ahead of the season and episode part bounds the title *)
C19_Witness ==
    /\ fpc = "ok"
    /\ parsed.info.kind = "Episode"
    /\ title_end = 1
    /\ MarksQuality(NameParts[2])
    /\ MarksEpisode(NameParts[3]) /\ MarksSeason(NameParts[3])

(***************************************************************************)
(* C20: every Metadata built has a positive width and a positive height,   *)
(* the one from_matroska returns and the one from_path builds from the     *)
(* quality number of a file that is not Matroska.                          *)
(***************************************************************************)
C20_PositiveResolution ==
    /\ fpc = "ok" =>
        (parsed.metadata.resolution[1] > 0 /\ parsed.metadata.resolution[2] > 0)
    /\ \A o \in MatroskaOutcomes :
        o.xpc = "ok" => (o.result.md.resolution[1] > 0 /\ o.result.md.resolution[2] > 0)

(***************************************************************************)
(* C21: a call of update_from_imdb on an Episode whose lookup result has   *)
(* no episode data, no episode number or no season number returns an       *)
(* error, and a call that returns an error leaves the Video as it was      *)
(* before the call, in every field of its info and its Metadata.           *)
(***************************************************************************)
CannotConvert(m) ==
    \/ ~m.episode.some
    \/ ~m.episode.v.episode.some
    \/ ~m.episode.v.season.some

C21_FailedUpdateKeepsInfo ==
    [][calls' = calls + 1 =>
        /\ (self.info.kind = "Episode" /\ entity'.kind = "Episode"
                /\ CannotConvert(entity'.episode))
            => outcome' \notin {"ok", "panic", "new", "idle"}
        /\ outcome' \notin {"ok", "panic", "new", "idle"}
            => (self'.info = self.info /\ self'.metadata = self.metadata /\ self' = self)]_vars

(* an Episode that one call replaced and a later, failed call kept *)
C21_Witness ==
    /\ outcome = "does not contain episode.season"
    /\ calls = MaxCalls
    /\ self.info.kind = "Episode"
    /\ self.info # built.info
    /\ self.info.ep.series.imdb_id # Some(entity.series.title.id)

(***************************************************************************)
(* C22: a finished run has synthesized an Info section only if the source  *)
(* holds none; for a source with exactly one Info section, wherever it     *)
(* stands among the other sections, the sink holds exactly one Info        *)
(* section and exactly one Title.                                          *)
(***************************************************************************)
(* the Titles of the sink: those written as events and those inside a      *)
(* section written whole                                                   *)
TitlesWritten ==
    {<<i, 0>> : i \in {j \in 1..Len(out) : out[j].id = "Title"}}
    \cup {<<i, k>> \in (1..Len(out)) \X (1..MaxLen) :
            /\ out[i].mode = "Full"
            /\ k <= Len(out[i].kids)
            /\ out[i].kids[k].id = "Title"}

C22_OneInfoKept ==
    pc = "done" =>
        LET infos == {i \in 1..Len(out) : out[i].id = "Info" /\ out[i].mode \in {"Start", "Full"}}
        IN  /\ (\E i \in infos : origin[i] = 0 /\ out[i].mode = "Full")
                => ~HasSection(src, "Info")
            /\ Cardinality({k \in 1..Len(src) : src[k] = Start("Info")}) = 1
                => (Cardinality(infos) = 1 /\ Cardinality(TitlesWritten) = 1)

(***************************************************************************)
(* C23: a SimpleTag of the source inside a Tag that lacks a TagName or a   *)
(* TagString is in the sink once, unchanged, as long as nothing failed.    *)
(***************************************************************************)
C23_UnpairedSimpleTagKept ==
    failed = "none" =>
        \A k \in 1..Len(src) :
            (/\ src[k].id = "SimpleTag"
             /\ ~IsPair(src[k])
             /\ InSection(src, k, "Tag"))
            => /\ Cardinality(WrittenAt(k)) = 1
               /\ \A i \in WrittenAt(k) : out[i] = src[k]

(***************************************************************************)
(* C24: as long as nothing failed, for every Tags section of the source    *)
(* that was read to its end, what the engine wrote inside it in the sink   *)
(* is one run of events right before the Tags End, after all that the      *)
(* source's children gave rise to: Tag Start, one Targets with no          *)
(* children, then for each non-empty key of the dictionary, once, a        *)
(* SimpleTag Start, its TagName, its TagString and a SimpleTag End, then   *)
(* Tag End.                                                                *)
(***************************************************************************)
C24_BlockBeforeTagsEnd ==
    failed = "none" =>
        \A k \in 1..Len(src) : src[k] = End("Tags") =>
            LET opens == {i \in 1..(k - 1) : src[i] = Start("Tags")}
                o == CHOOSE i \in opens : \A j \in opens : j <= i
                p == CHOOSE i \in WrittenAt(k) : TRUE
                po == CHOOSE i \in WrittenAt(o) : TRUE
                eng == {i \in (po + 1)..(p - 1) : origin[i] = 0}
                n == Cardinality(eng)
                keys == {key \in DOMAIN tags(video) : tags(video)[key] # ""}
                names == {i \in eng : out[i].id = "TagName"}
            IN  /\ Cardinality(WrittenAt(k)) = 1 /\ Cardinality(WrittenAt(o)) = 1
                /\ eng = (p - n)..(p - 1)
                /\ n = 3 + 4 * Cardinality(keys)
                /\ out[p - n] = Start("Tag")
                /\ out[p - n + 1] = Full("Targets", <<>>)
                /\ out[p - 1] = End("Tag")
                /\ Cardinality(names) = Cardinality(keys)
                /\ \A key \in keys : \E i \in names : out[i] = Leaf("TagName", key)
                /\ \A i \in names :
                    /\ out[i - 1] = Start("SimpleTag")
                    /\ out[i + 1] = Leaf("TagString", tags(video)[out[i].val])
                    /\ out[i + 2] = End("SimpleTag")

(* a finished run whose source Tags section, closed by its Tags End, held  *)
(* a Tag with an entry that was written, for a video with more than one    *)
(* non-empty key                                                           *)
C24_Witness ==
    /\ pc = "done"
    /\ Cardinality(NonEmptyKeys(video)) >= 2
    /\ \E k \in 1..Len(src) :
        /\ src[k].id = "SimpleTag"
        /\ InSection(src, k, "Tag")
        /\ WrittenAt(k) # {}
        /\ \E e \in (k + 1)..Len(src) :
                /\ src[e] = End("Tags")
                /\ WrittenAt(e) # {}

(***************************************************************************)
(* C25: the effective vertical resolution get_resolution works with is the *)
(* larger of floor(width * 9 / 16) and the height, for every width and     *)
(* height.                                                                 *)
(***************************************************************************)
C25_EffectiveResolution ==
    cpc \in {"loop", "returned"} =>
        LET w == meta.resolution[1]
            h == meta.resolution[2]
        IN  best_resolution = IF (w * 9) \div 16 > h THEN (w * 9) \div 16 ELSE h

(***************************************************************************)
(* C26: the Metadata from_vertical_resolution builds from a quality number *)
(* q has no length, height q and width floor(q * 16 / 9), and              *)
(* get_resolution of it is what q alone is classified as: q itself outside *)
(* 480..4320, the nearest tier otherwise, so a tier gives itself.          *)
(***************************************************************************)
C26_SynthesizedWidth ==
    LET q == meta.resolution[2]
        r == quality_class
    IN  (cpc = "returned" /\ meta = from_vertical_resolution(q, NoLength)) =>
            /\ meta.length = NoLength
            /\ meta.resolution[1] = (q * 16) \div 9
            /\ (q < 480 \/ q > 4320) => r = q
            /\ (q >= 480 /\ q <= 4320) =>
                /\ r \in Tiers
                /\ \A t \in Tiers :
                    /\ Distance(r, q) <= Distance(t, q)
                    /\ Distance(r, q) = Distance(t, q) => r <= t
            /\ q \in Tiers => r = q

(***************************************************************************)
(* C27 as stated: with the segment the parts that lie between the part at  *)
(* the title boundary and the quality boundary, the title of a parsed      *)
(* Episode is empty when the segment has fewer than 2 parts and the        *)
(* segment joined by spaces otherwise; the title boundary never lies       *)
(* beyond the quality boundary, so their difference never underflows.      *)
(***************************************************************************)
(* a panic of from_path is one of the making of the Metadata, after the    *)
(* title and the episode title were cut out: from_matroska panicked, or    *)
(* the width made from the quality number does not fit u64                 *)
MetadataPanics ==
    /\ part_index = Len(file_name_parts)
    /\ \/ file_type = "MKV"
       \/ from_vertical_resolution_overflows(unwrap_or(quality, 0))

(* the parts after the one at the title boundary, up to the quality        *)
(* boundary (the first part with a quality marker, or the end of the name) *)
Segment ==
    LET ps == NameParts
        b == Earliest({k \in 1..Len(ps) :
                        MarksSeason(ps[k]) \/ MarksEpisode(ps[k]) \/ MarksQuality(ps[k])})
        qb == Earliest({k \in 1..Len(ps) : MarksQuality(ps[k])})
    IN  SubSeq(ps, b + 2, qb)

C27_TitleNeedsTwoParts ==
    /\ fpc \in {"scan", "ok", "panic"} => title_end <= episode_title_end
    /\ fpc = "panic" => MetadataPanics
    /\ (fpc = "ok" /\ parsed.info.kind = "Episode") =>
            parsed.info.ep.title = IF Len(Segment) < 2 THEN "" ELSE join(Segment)

(***************************************************************************)
(* C27 amended: the title of a parsed Episode is empty when no part lies   *)
(* between the part at the title boundary and the quality boundary, and    *)
(* otherwise the parts of that segment joined by spaces, a single part     *)
(* too; the title boundary never lies beyond the quality boundary, so      *)
(* their difference never underflows.                                      *)
(***************************************************************************)
C27_TitleIsSegment ==
    /\ fpc \in {"scan", "ok", "panic"} => title_end <= episode_title_end
    /\ fpc = "panic" => MetadataPanics
    /\ (fpc = "ok" /\ parsed.info.kind = "Episode") =>
            parsed.info.ep.title = IF Len(Segment) < 1 THEN "" ELSE join(Segment)

(* an Episode whose title is the one part between its marker and a quality *)
C27_Witness ==
    /\ fpc = "ok"
    /\ parsed.info.kind = "Episode"
    /\ parsed.info.ep.title = "Show"
    /\ MarksEpisode(NameParts[1])
    /\ Len(NameParts) = 3 /\ MarksQuality(NameParts[3])

(***************************************************************************)
(* C28: after any number of calls of update_from_imdb, whatever they       *)
(* returned, the Video has the variant, the resolution and the length it   *)
(* was built with, and its path, file_type and file_extension.             *)
(***************************************************************************)
C28_UpdateKeepsMetadata ==
    /\ self.info.kind = built.info.kind
    /\ self.metadata.resolution = built.metadata.resolution
    /\ self.metadata.length = built.metadata.length
    /\ self.path = built.path
    /\ self.file_type = built.file_type
    /\ self.file_extension = built.file_extension

(* a Matroska Movie after a call that replaced its info and another call *)
C28_Witness ==
    /\ calls = MaxCalls
    /\ self.file_type = "MKV"
    /\ self.info.kind = "Movie"
    /\ self.info # built.info
    /\ self.metadata.length.some
(***************************************************************************)
(* The loop of main.                                                       *)
(***************************************************************************)
(* the video found a file at its destination when the loop took it up *)
DestinationExisted ==
    lpc # "idle" /\ ~opts.dry_run /\ fs0[File("new_file_path")] # Absent

(* C29: a video whose destination path already exists is skipped: the file *)
(* at the destination keeps its content and its name, no other file is     *)
(* created or renamed, and the source file stays in place, whatever the    *)
(* delete and same-drive options and the file type are.                    *)
C29_ExistingDestinationSkipped == DestinationExisted => fs = fs0

====
